---- MODULE Spec2Model ----
(***************************************************************************)
(* Bulk notification dispatch and logging: the Termii / Twilio / AWS SES   *)
(* adapters, the provider factory, the NotificationService send paths and  *)
(* the notification_logs store.                                            *)
(*                                                                         *)
(* The specifications share the definitions below:                         *)
(*   SpecBulk       one adapter-level bulk send per call slot: the carrier *)
(*                  calls of a bulk send complete in any order and are     *)
(*                  merged;                                                *)
(*   Spec           the service: concurrent send_sms / send_whatsapp /     *)
(*                  send_email invocations, each split at its await;       *)
(*   SpecLogs       one send invocation and the log query endpoints;       *)
(*   SpecFanout     the per-recipient carrier calls of one send_email;     *)
(*   SpecProvider   one service resolving its adapters through the factory;*)
(*   SpecRender     the TemplateRenderer on every template and dict;       *)
(*   SpecCapture    one request to the capture extract endpoint;           *)
(*   SpecLoop       adapter calls sharing the event loop thread;           *)
(*   SpecTemplates  template management requests;                          *)
(*   SpecSession    requests that depend on get_db.                        *)
(***************************************************************************)
EXTENDS Integers, Sequences, FiniteSets, TLC

(***************************************************************************)
(* Program constants and model bounds                                      *)
(***************************************************************************)
\* sms/termii.py:123, whatsapp/termii.py:131
batch_size == 100

\* longest recipient list of an SMS / WhatsApp request
MaxRecipients == 101
\* longest recipient list of an email request (one carrier call each)
MaxEmailRecipients == 2
\* number of values uuid4() can draw
MaxUuid == 2
\* the "balance" figure a carrier reports in an accepted call
CarrierBalance == 5

\* Recipient lists are <<1, ..., n>>; the lengths are the ones around the
\* single/bulk switch (len(to) > 1) and around the carrier cap.
RecipientCounts ==
    {n \in 0..MaxRecipients : n <= 2 \/ n >= batch_size}

Recipients(n) == [i \in 1..n |-> i]

Min(a, b) == IF a < b THEN a ELSE b

(***************************************************************************)
(* Python values                                                           *)
(***************************************************************************)
\* Optional[int] None
NoCount == -1
\* Optional[str] None for the joined fields (message ids, errors)
NoText == << >>

\* x or y on an Optional[int]
PyOr(x, y) == IF x = NoCount \/ x = 0 THEN y ELSE x

\* A cost is a decimal string; num is its value and float tells whether it
\* was printed from a float ("5.0") or from an int ("5").
CostStr(n, isFloat) == [num |-> n, float |-> isFloat]
\* float(cost)
PyFloat(cost) == cost.num
\* str(total_cost) of a float accumulator
StrOfFloat(x) == CostStr(x, TRUE)

\* NotificationStatus (constants.py:13-19)
SENT == "sent"
FAILED == "failed"

(***************************************************************************)
(* Carrier behaviour: what one HTTP call to the carrier does.              *)
(*   ok        200 and code "ok"                                           *)
(*   rejected  non-200 status or a code other than "ok"                    *)
(*   timeout   httpx.TimeoutException                                      *)
(*   error     any other exception inside the adapter's try block          *)
(*   raised    an exception that escapes the adapter coroutine             *)
(***************************************************************************)
CaughtOutcomes == {"ok", "rejected", "timeout", "error"}
CarrierOutcomes == CaughtOutcomes \cup {"raised"}

\* base.py:10-26; provider_response and recipient are not modelled
NotificationResponse(success, message_id, provider, status, error, cost, sent_at, total, succ, fail) ==
    [raised |-> FALSE, exc |-> "None",
     success |-> success, message_id |-> message_id, provider |-> provider,
     status |-> status, error |-> error, cost |-> cost, sent_at |-> sent_at,
     total_recipients |-> total, successful_count |-> succ,
     failed_count |-> fail]

\* an exception object (raised by a call, or returned by gather)
Raised(e) ==
    [raised |-> TRUE, exc |-> e,
     success |-> FALSE, message_id |-> NoText, provider |-> "None",
     status |-> "None", error |-> NoText, cost |-> CostStr(0, FALSE),
     sent_at |-> "None", total_recipients |-> NoCount,
     successful_count |-> NoCount, failed_count |-> NoCount]

\* the error text of a failed carrier call
ErrorText(outcome) ==
    CASE outcome = "rejected" -> "Unknown error"
      [] outcome = "timeout" -> "Request timeout"
      [] OTHER -> "str(e)"

(***************************************************************************)
(* Termii SMS adapter                                                      *)
(***************************************************************************)
\* _send_single_batch without the except httpx.TimeoutException handler
\* and with the generic handler narrowed so that a timeout escapes
send_single_batch_timeout_escapes(recipients, outcome, batch_num) ==
    CASE outcome = "ok" ->
            NotificationResponse(TRUE, <<batch_num>>, "termii", SENT, NoText,
                CostStr(CarrierBalance, FALSE), "utcnow",
                Len(recipients), Len(recipients), 0)
      [] outcome \in {"rejected", "error"} ->
            NotificationResponse(FALSE, NoText, "termii", FAILED,
                <<ErrorText(outcome)>>, CostStr(0, FALSE), "None",
                Len(recipients), 0, Len(recipients))
      [] OTHER -> Raised("Exception")

\* sms/termii.py:190-279
send_single_batch(recipients, outcome, batch_num) ==
    CASE outcome = "ok" ->
            NotificationResponse(TRUE, <<batch_num>>, "termii", SENT, NoText,
                CostStr(CarrierBalance, FALSE), "utcnow",
                Len(recipients), Len(recipients), 0)
      [] outcome \in {"rejected", "timeout", "error"} ->
            NotificationResponse(FALSE, NoText, "termii", FAILED,
                <<ErrorText(outcome)>>, CostStr(0, FALSE), "None",
                Len(recipients), 0, Len(recipients))
      [] OTHER -> Raised("Exception")

\* sms/termii.py:127
Batches(to) ==
    [k \in 1..((Len(to) + batch_size - 1) \div batch_size) |->
        SubSeq(to, (k - 1) * batch_size + 1, Min(k * batch_size, Len(to)))]

\* the results in completion order, cut after the first one that is not a
\* success (a loop over as_completed that stops at the first failure)
gather_until_failure(results, order) ==
    LET bad == {i \in 1..Len(order) : results[order[i]].raised
                                      \/ ~results[order[i]].success}
        last == IF bad = {} THEN Len(order)
                ELSE CHOOSE i \in bad : \A j \in bad : i <= j
    IN  [i \in 1..last |-> results[order[i]]]

\* asyncio.gather(*tasks, return_exceptions=True), sms/termii.py:137:
\* the results come back in task order whatever the completion order, and
\* an exception of a task is returned in its place.
gather(results, order) == results

\* sms/termii.py:146-164, one iteration of the loop
AggregateStep(acc, result) ==
    IF result.raised
    THEN [acc EXCEPT !.errors = Append(@, result.exc),
                     !.total_failed = @ + batch_size]
    ELSE IF result.success
         THEN [acc EXCEPT
                 !.total_successful = @ + PyOr(result.successful_count, 0),
                 !.all_message_ids =
                     IF result.message_id # NoText
                     THEN @ \o result.message_id ELSE @,
                 !.total_cost = @ + PyFloat(result.cost)]
         ELSE [acc EXCEPT
                 !.total_failed = @ + PyOr(result.failed_count, 0),
                 !.errors = IF result.error # NoText
                            THEN @ \o result.error ELSE @]

RECURSIVE AggregateLoop(_, _, _)
\* sms/termii.py:140-164
AggregateLoop(batch_results, i, acc) ==
    IF i > Len(batch_results) THEN acc
    ELSE AggregateLoop(batch_results, i + 1,
                       AggregateStep(acc, batch_results[i]))

\* sms/termii.py:139-188: merge the gathered chunk results
MergeBatches(to, batch_results) ==
    LET acc == AggregateLoop(batch_results, 1,
                   [total_successful |-> 0, total_failed |-> 0,
                    total_cost |-> 0, all_message_ids |-> << >>,
                    errors |-> << >>])
        overall_success == acc.total_successful > 0 /\ acc.total_failed = 0
    IN  NotificationResponse(overall_success, acc.all_message_ids, "termii",
            IF overall_success THEN SENT ELSE FAILED,
            acc.errors, StrOfFloat(acc.total_cost),
            IF overall_success THEN "utcnow" ELSE "None",
            Len(to), acc.total_successful, acc.total_failed)

(***************************************************************************)
(* Termii WhatsApp adapter                                                 *)
(***************************************************************************)
\* whatsapp/termii.py:131-132: the recipients of the one carrier call
BulkWhatsAppRecipients(to) == SubSeq(to, 1, Min(batch_size, Len(to)))

\* whatsapp/termii.py:134-218: the result of the one carrier call
bulk_whatsapp_result(all_recipients, outcome, media) ==
    CASE outcome = "ok" ->
            NotificationResponse(TRUE, <<1>>, "termii", SENT, NoText,
                CostStr(CarrierBalance, FALSE), "utcnow",
                Len(all_recipients), Len(all_recipients), 0)
      [] outcome \in {"rejected", "timeout", "error"} ->
            NotificationResponse(FALSE, NoText, "termii", FAILED,
                <<ErrorText(outcome)>>, CostStr(0, FALSE), "None",
                Len(all_recipients), 0, Len(all_recipients))
      [] OTHER -> Raised("Exception")

(***************************************************************************)
(* State                                                                   *)
(***************************************************************************)
VARIABLES
    bulk,       \* SpecBulk: the bulk sends in progress, one per call slot
    settings,   \* app.config.settings: the carrier names and credentials
    mapped,     \* which declaration of NotificationLog is the mapped class
    logs,       \* the committed rows of notification_logs, in insert order
    req,        \* Spec: the send invocations, one per request slot
    query,      \* SpecLogs: the last response of a log query endpoint
    svc,        \* SpecProvider: one NotificationService and its adapters
    fan,        \* SpecFanout: the per-recipient fan-out of one send_email
    tr,         \* SpecRender: one use of the TemplateRenderer
    cap,        \* SpecCapture: one request to the capture extract endpoint
    loop,       \* SpecLoop: the event loop thread and the adapter calls on it
    tpl,        \* SpecTemplates: notification_templates and the requests on it
    dep         \* SpecSession: the get_db generator of each request

vars == <<bulk, settings, mapped, logs, req, query, svc, fan, tr, cap, loop, tpl, dep>>

(***************************************************************************)
(* SpecBulk: one bulk send of an adapter.  send_bulk_sms creates one task  *)
(* per chunk and gathers them; send_bulk_whatsapp awaits one carrier call. *)
(* dispatch fixes what the carrier will answer to each call; the calls     *)
(* then complete one at a time, in any order.                              *)
(***************************************************************************)
BulkCalls == {"a", "b"}
BulkAdapters == {"sms", "whatsapp"}
BulkCounts == {n \in RecipientCounts : n > 1}

Pending == Raised("pending")

IdleBulk ==
    [pc |-> "idle", adapter |-> "sms", to |-> << >>, outcomes |-> << >>,
     calls |-> << >>, results |-> << >>, order |-> << >>,
     ret |-> Raised("None")]

\* the recipient lists of the carrier calls a bulk send issues
\* (sms/termii.py:127-134, whatsapp/termii.py:132-154)
CarrierCalls(adapter, to) ==
    IF adapter = "sms" THEN Batches(to) ELSE <<BulkWhatsAppRecipients(to)>>

\* sms/termii.py:123-137, whatsapp/termii.py:131-154: up to the await
BulkDispatch(c) ==
    /\ bulk[c].pc = "idle"
    /\ \E adapter \in BulkAdapters, n \in BulkCounts :
         LET to == Recipients(n)
             calls == CarrierCalls(adapter, to)
         IN  \E outcomes \in [1..Len(calls) -> CarrierOutcomes] :
               bulk' = [bulk EXCEPT ![c] =
                          [pc |-> "inflight", adapter |-> adapter, to |-> to,
                           outcomes |-> outcomes, calls |-> calls,
                           results |-> [k \in 1..Len(calls) |-> Pending],
                           order |-> << >>, ret |-> Raised("None")]]
    /\ UNCHANGED <<settings, mapped, logs, req, query, svc, fan, tr, cap, loop, tpl, dep>>

\* one carrier call of the bulk send completes
ChunkDone(c) ==
    /\ bulk[c].pc = "inflight"
    /\ \E k \in 1..Len(bulk[c].calls) :
         /\ bulk[c].results[k] = Pending
         /\ bulk' = [bulk EXCEPT
                ![c].results[k] =
                    IF bulk[c].adapter = "sms"
                    THEN send_single_batch(bulk[c].calls[k],
                                           bulk[c].outcomes[k], k)
                    ELSE bulk_whatsapp_result(bulk[c].calls[k],
                                              bulk[c].outcomes[k], FALSE),
                ![c].order = Append(@, k)]
    /\ UNCHANGED <<settings, mapped, logs, req, query, svc, fan, tr, cap, loop, tpl, dep>>

\* sms/termii.py:137-188, whatsapp/termii.py:156-218: after the await
BulkReturn(c) ==
    /\ bulk[c].pc = "inflight"
    /\ \A k \in 1..Len(bulk[c].calls) : bulk[c].results[k] # Pending
    /\ bulk' = [bulk EXCEPT
           ![c].pc = "done",
           ![c].ret =
               IF bulk[c].adapter = "sms"
               THEN MergeBatches(bulk[c].to,
                                 gather(bulk[c].results, bulk[c].order))
               ELSE bulk[c].results[1]]
    /\ UNCHANGED <<settings, mapped, logs, req, query, svc, fan, tr, cap, loop, tpl, dep>>

\* the caller takes the result; the slot is free for the next bulk send
BulkReset(c) ==
    /\ bulk[c].pc = "done"
    /\ bulk' = [bulk EXCEPT ![c] = IdleBulk]
    /\ UNCHANGED <<settings, mapped, logs, req, query, svc, fan, tr, cap, loop, tpl, dep>>

(***************************************************************************)
(* Single-recipient paths and the adapter entry points                     *)
(***************************************************************************)
\* sms/termii.py:40-106, whatsapp/termii.py:46-120, email/termii.py:56-122:
\* one carrier call for one recipient; no bulk counters are set
single_send(outcome) ==
    CASE outcome = "ok" ->
            NotificationResponse(TRUE, <<1>>, "termii", SENT, NoText,
                CostStr(CarrierBalance, FALSE), "utcnow",
                NoCount, NoCount, NoCount)
      [] outcome \in {"rejected", "timeout", "error"} ->
            NotificationResponse(FALSE, NoText, "termii", FAILED,
                <<ErrorText(outcome)>>, CostStr(0, FALSE), "None",
                NoCount, NoCount, NoCount)
      [] OTHER -> Raised("Exception")

\* sms/termii.py:108-188 with the chunk results of the given carrier answers
send_bulk_sms(to, outcomes) ==
    LET batches == Batches(to)
    IN  MergeBatches(to, gather([k \in 1..Len(batches) |->
                            send_single_batch(batches[k], outcomes[k], k)],
                         [k \in 1..Len(batches) |-> k]))

\* whatsapp/termii.py:122-218
send_bulk_whatsapp(to, outcomes, media) ==
    bulk_whatsapp_result(BulkWhatsAppRecipients(to), outcomes[1], media)

\* sms/termii.py:26-106
TermiiSMS_send_sms(to, outcomes) ==
    IF Len(to) > 1 THEN send_bulk_sms(to, outcomes)
    ELSE IF Len(to) = 0 THEN Raised("IndexError")
    ELSE single_send(outcomes[1])

\* whatsapp/termii.py:27-120
TermiiWhatsApp_send_whatsapp(to, outcomes, media) ==
    IF Len(to) > 1 THEN send_bulk_whatsapp(to, outcomes, media)
    ELSE IF Len(to) = 0 THEN Raised("IndexError")
    ELSE single_send(outcomes[1])

\* the number of carrier calls a Termii adapter awaits for a request
NumCalls(op, to) ==
    IF op = "sms" /\ Len(to) > 1 THEN Len(Batches(to)) ELSE 1

(***************************************************************************)
(* Adapter signatures (keyword parameters and the required ones)           *)
(***************************************************************************)
\* sms/termii.py:26-32, sms/twilio.py:24-28, whatsapp/termii.py:27-32,
\* whatsapp/twilio.py:24-29, email/aws_ses.py:29-36, email/termii.py:26-33
Params(adapter) ==
    CASE adapter = "TermiiSMSProvider" ->
            {"to", "message", "channel", "message_type"}
      [] adapter = "TwilioSMSProvider" -> {"to", "message"}
      [] adapter = "TermiiWhatsAppProvider" -> {"to", "message", "media"}
      [] adapter = "TwilioWhatsAppProvider" ->
            {"to", "message", "template_id"}
      [] adapter = "AWSEmailProvider" ->
            {"to", "subject", "body", "html_body", "from_email"}
      [] adapter = "TermiiEmailProvider" ->
            {"to", "subject", "template_id", "variables", "from_email"}

Required(adapter) ==
    CASE adapter = "TermiiSMSProvider" -> {"to", "message"}
      [] adapter = "TwilioSMSProvider" -> {"to", "message"}
      [] adapter = "TermiiWhatsAppProvider" -> {"to", "message"}
      [] adapter = "TwilioWhatsAppProvider" -> {"to", "message"}
      [] adapter = "AWSEmailProvider" -> {"to", "subject", "body"}
      [] adapter = "TermiiEmailProvider" ->
            {"to", "subject", "template_id", "variables"}

\* the keywords of the call the service makes on each channel
\* (service.py:205-210, 325-329, 113-118)
CallKeywords(op) ==
    CASE op = "sms" -> {"to", "message", "channel", "message_type"}
      [] op = "whatsapp" -> {"to", "message", "media"}
      [] op = "email" -> {"to", "subject", "template_id", "variables"}

\* calling a function with an unknown or a missing keyword raises TypeError
CallAccepted(adapter, op) ==
    /\ CallKeywords(op) \subseteq Params(adapter)
    /\ Required(adapter) \subseteq CallKeywords(op)

\* the provider_name each adapter sets in __init__
provider_name(adapter) ==
    CASE adapter \in {"TermiiSMSProvider", "TermiiWhatsAppProvider",
                      "TermiiEmailProvider"} -> "termii"
      [] adapter \in {"TwilioSMSProvider", "TwilioWhatsAppProvider"} ->
            "twilio"
      [] OTHER -> "aws_ses"

(***************************************************************************)
(* Provider factory                                                        *)
(***************************************************************************)
\* str.lower() on the carrier names the configurations use
Lower(name) ==
    CASE name = "Termii" -> "termii"
      [] name = "Twilio" -> "twilio"
      [] OTHER -> name

\* factory.py:14-30; "ValueError" when the factory raises
get_email_provider(cfg) ==
    IF Lower(cfg.EMAIL_PROVIDER) = "aws_ses"
    THEN IF cfg.AWS_ACCESS_KEY = "" \/ cfg.AWS_SECRET_KEY = ""
         THEN "ValueError" ELSE "AWSEmailProvider"
    ELSE "ValueError"

\* get_sms_provider falling back to Twilio when the Termii key is not set
get_sms_provider_fallback(cfg) ==
    IF Lower(cfg.SMS_PROVIDER) = "termii" /\ cfg.TERMII_API_KEY # ""
    THEN "TermiiSMSProvider"
    ELSE IF Lower(cfg.SMS_PROVIDER) \in {"termii", "twilio"}
    THEN IF cfg.TWILIO_ACCOUNT_SID = "" \/ cfg.TWILIO_AUTH_TOKEN = ""
         THEN "ValueError" ELSE "TwilioSMSProvider"
    ELSE "ValueError"

\* factory.py:33-57
get_sms_provider(cfg) ==
    IF Lower(cfg.SMS_PROVIDER) = "termii"
    THEN IF cfg.TERMII_API_KEY = "" THEN "ValueError"
         ELSE "TermiiSMSProvider"
    ELSE IF Lower(cfg.SMS_PROVIDER) = "twilio"
    THEN IF cfg.TWILIO_ACCOUNT_SID = "" \/ cfg.TWILIO_AUTH_TOKEN = ""
         THEN "ValueError" ELSE "TwilioSMSProvider"
    ELSE "ValueError"

\* factory.py:60-84
get_whatsapp_provider(cfg) ==
    IF Lower(cfg.WHATSAPP_PROVIDER) = "termii"
    THEN IF cfg.TERMII_API_KEY = "" THEN "ValueError"
         ELSE "TermiiWhatsAppProvider"
    ELSE IF Lower(cfg.WHATSAPP_PROVIDER) = "twilio"
    THEN IF cfg.TWILIO_ACCOUNT_SID = "" \/ cfg.TWILIO_AUTH_TOKEN = ""
         THEN "ValueError" ELSE "TwilioWhatsAppProvider"
    ELSE "ValueError"

\* config.py:13-45: the deployments considered.  The first is the default
\* configuration with the Termii key set, the second selects the other
\* registered carriers, the third is the default with no credentials.
Configs ==
    { [EMAIL_PROVIDER |-> "termii", SMS_PROVIDER |-> "termii",
       WHATSAPP_PROVIDER |-> "Termii", TERMII_API_KEY |-> "key",
       TWILIO_ACCOUNT_SID |-> "", TWILIO_AUTH_TOKEN |-> "",
       AWS_ACCESS_KEY |-> "ak", AWS_SECRET_KEY |-> "sk"],
      [EMAIL_PROVIDER |-> "aws_ses", SMS_PROVIDER |-> "twilio",
       WHATSAPP_PROVIDER |-> "twilio", TERMII_API_KEY |-> "",
       TWILIO_ACCOUNT_SID |-> "sid", TWILIO_AUTH_TOKEN |-> "token",
       AWS_ACCESS_KEY |-> "ak", AWS_SECRET_KEY |-> "sk"],
      [EMAIL_PROVIDER |-> "termii", SMS_PROVIDER |-> "termii",
       WHATSAPP_PROVIDER |-> "nexmo", TERMII_API_KEY |-> "",
       TWILIO_ACCOUNT_SID |-> "", TWILIO_AUTH_TOKEN |-> "",
       AWS_ACCESS_KEY |-> "", AWS_SECRET_KEY |-> ""] }

(***************************************************************************)
(* NotificationLog: the mapped class and the table                         *)
(*                                                                         *)
(* The repository holds two declarations of notification_logs: the class   *)
(* in models.py (one row per recipient, the layout downgrade() restores)   *)
(* and the table upgrade() of revision 876ab23eb3c0 creates (one row per   *)
(* batch), which is the layout service.py writes and the notifications     *)
(* router reads.  `mapped` says which of the two the running process maps. *)
(***************************************************************************)
\* models.py:115-128
ModelColumns ==
    {"id", "batch_id", "recipient_type", "recipient", "subject", "message",
     "status", "provider", "provider_message_id", "error_message", "cost",
     "sent_at", "delivered_at", "created_at"}

\* alembic/versions/876ab23eb3c0...py:28-65
RestructuredColumns ==
    {"id", "batch_id", "type", "channel", "subject", "message",
     "total_recipients", "recipient_sample", "status", "successful_count",
     "failed_count", "provider", "provider_message_id", "provider_response",
     "total_cost", "error_message", "metadata", "created_by",
     "created_by_email", "created_at", "sent_at", "completed_at"}

\* "metadata" is reserved on a declarative class; service.py:229 writes the
\* column through the attribute meta
AttributeOf(column) == IF column = "metadata" THEN "meta" ELSE column

MappedAttributes(m) ==
    IF m = "models.py" THEN ModelColumns
    ELSE {AttributeOf(c) : c \in RestructuredColumns}

\* the keywords of NotificationLog(...) in service.py:132-153, 213-234,
\* 255-276, 332-353, 374-395
ServiceRowFields ==
    {"batch_id", "type", "channel", "subject", "message", "total_recipients",
     "recipient_sample", "status", "successful_count", "failed_count",
     "provider", "provider_message_id", "provider_response", "total_cost",
     "error_message", "meta", "created_by", "created_by_email", "sent_at",
     "completed_at"}

\* the declarative constructor raises TypeError on a keyword that is not a
\* mapped attribute
Constructs(m, fields) == fields \subseteq MappedAttributes(m)

\* a row of notification_logs (the fields the claims and the router read);
\* by is the invocation that inserted it
LogRow(by, batch_id, type, total, status, succ, fail, provider, cost, error, sent_at) ==
    [by |-> by, batch_id |-> batch_id, type |-> type,
     total_recipients |-> total, status |-> status,
     successful_count |-> succ, failed_count |-> fail, provider |-> provider,
     total_cost |-> cost, error_message |-> error, sent_at |-> sent_at,
     completed_at |-> "utcnow"]

\* batch_id without the unique constraint (as the column of models.py:116)
UniqueBatchId_unconstrained(rows, row) == TRUE

\* batch_id VARCHAR UNIQUE NOT NULL (876ab23eb3c0:30): the INSERT of a row
\* whose batch_id is taken fails
UniqueBatchId(rows, row) ==
    \A i \in 1..Len(rows) : rows[i].batch_id # row.batch_id

\* db.add(row); db.commit(): the flush succeeds when the database accepts
\* the INSERT (db_ok) and the unique constraint holds
CommitSucceeds(rows, row, db_ok) == db_ok /\ UniqueBatchId(rows, row)

\* the exception of a commit that does not succeed
CommitError(rows, row, db_ok) ==
    IF ~UniqueBatchId(rows, row) THEN "IntegrityError"
    ELSE "OperationalError"

(***************************************************************************)
(* The session of a request (database.py:54-70 hands one to each request)  *)
(*   txn       a transaction is open                                       *)
(*   inactive  a flush failed and rollback() has not been called           *)
(*   rollbacks number of rollback() calls                                  *)
(*   late      add()/commit() calls made while inactive                    *)
(***************************************************************************)
NewSession == [txn |-> FALSE, inactive |-> FALSE, rollbacks |-> 0, late |-> 0]

Committed(sess) == [sess EXCEPT !.txn = FALSE]
FlushFailed(sess) == [sess EXCEPT !.txn = TRUE, !.inactive = TRUE]
RolledBack(sess) ==
    [sess EXCEPT !.txn = FALSE, !.inactive = FALSE, !.rollbacks = @ + 1]

(***************************************************************************)
(* What a send invocation gives its caller                                 *)
(***************************************************************************)
NoReturn ==
    [kind |-> "none", exc |-> "None", status |-> "None", batch_id |-> 0,
     total_recipients |-> 0, successful_count |-> 0, failed_count |-> 0,
     total_cost |-> CostStr(0, FALSE), provider |-> "None",
     message |-> "None"]

\* schemas.py:263-272
BatchNotificationResult(status, batch_id, total, succ, fail, cost, provider, message) ==
    [kind |-> "result", exc |-> "None", status |-> status,
     batch_id |-> batch_id, total_recipients |-> total,
     successful_count |-> succ, failed_count |-> fail, total_cost |-> cost,
     provider |-> provider, message |-> message]

\* the invocation raised e to its caller
RaisedToCaller(e) == [NoReturn EXCEPT !.kind = "raised", !.exc = e]

(***************************************************************************)
(* NotificationService                                                     *)
(***************************************************************************)
Requests == {"r1", "r2"}

IdleReq ==
    [pc |-> "idle", op |-> "none", to |-> << >>, message |-> FALSE,
     media |-> FALSE, batch_id |-> 0, provider |-> "None",
     fault |-> "None", commit_failed |-> "None", session |-> NewSession,
     ret |-> NoReturn]

\* what the end of a send leaves behind: the table, the answer to the
\* caller, the session, the first exception met (fault) and the exception
\* of the commit that failed, if any
Ending(rows, ret, sess, fault, commit_failed) ==
    [logs |-> rows, ret |-> ret, session |-> sess, fault |-> fault,
     commit_failed |-> commit_failed]

\* service.py:221 / 340 and 140: the status stored in the row
RowStatus(result) == result.status
EmailRowStatus(successful_count, failed_count) ==
    IF successful_count > 0 THEN "sent" ELSE "failed"

\* service.py:213-234 / 332-353: the row of the try block
SuccessRow(r, q, type, result) ==
    LogRow(r, q.batch_id, type,
           PyOr(result.total_recipients, Len(q.to)),
           RowStatus(result),
           PyOr(result.successful_count,
                IF result.success THEN Len(q.to) ELSE 0),
           PyOr(result.failed_count,
                IF result.success THEN 0 ELSE Len(q.to)),
           result.provider, result.cost, result.error,
           IF result.sent_at # "None" THEN result.sent_at ELSE "utcnow")

\* service.py:255-276 / 374-395: the row of the except block
FailureRow(r, q, type) ==
    LogRow(r, q.batch_id, type, Len(q.to), "failed", 0, Len(q.to),
           provider_name(q.provider), CostStr(0, FALSE), <<"str(e)">>,
           "None")

\* service.py:239-249 / 358-368
SuccessResult(q, result) ==
    BatchNotificationResult(
        IF result.success THEN "success" ELSE "failed", q.batch_id,
        PyOr(result.total_recipients, Len(q.to)),
        PyOr(result.successful_count,
             IF result.success THEN Len(q.to) ELSE 0),
        PyOr(result.failed_count, IF result.success THEN 0 ELSE Len(q.to)),
        result.cost, result.provider,
        IF result.success THEN "sent successfully" ELSE "Failed to send")

\* service.py:281-291 / 400-410 / 174-184
FailureResult(q) ==
    BatchNotificationResult("failed", q.batch_id, Len(q.to), 0, Len(q.to),
        CostStr(0, FALSE), provider_name(q.provider),
        "Failed to send: str(e)")

\* service.py:251-279 / 370-398: the except block of send_sms and
\* send_whatsapp, entered with the session as the try block left it
ExceptBlock(r, q, type, sess, fault, commit_failed, db2) ==
    IF ~Constructs(mapped, ServiceRowFields)
    THEN Ending(logs, RaisedToCaller("TypeError"), sess, fault, commit_failed)
    ELSE IF sess.inactive
    THEN Ending(logs, RaisedToCaller("PendingRollbackError"),
              [sess EXCEPT !.late = @ + 1], fault, commit_failed)
    ELSE IF CommitSucceeds(logs, FailureRow(r, q, type), db2)
    THEN Ending(Append(logs, FailureRow(r, q, type)), FailureResult(q),
              Committed(sess), fault, commit_failed)
    ELSE Ending(logs,
                RaisedToCaller(CommitError(logs, FailureRow(r, q, type),
                                           db2)),
                FlushFailed(sess), fault,
                CommitError(logs, FailureRow(r, q, type), db2))

\* service.py:203-291 / 323-410 from the point where the adapter call has
\* returned result or raised (result.raised)
SendTail(r, q, type, result, db1, db2) ==
    IF result.raised
    THEN ExceptBlock(r, q, type, q.session, "adapter", "None", db2)
    ELSE IF ~Constructs(mapped, ServiceRowFields)
    THEN ExceptBlock(r, q, type, q.session, "construct", "None", db2)
    ELSE IF CommitSucceeds(logs, SuccessRow(r, q, type, result), db1)
    THEN Ending(Append(logs, SuccessRow(r, q, type, result)),
              SuccessResult(q, result), Committed(q.session), "None",
              "None")
    ELSE ExceptBlock(r, q, type, FlushFailed(q.session), "commit",
                     CommitError(logs, SuccessRow(r, q, type, result), db1),
                     db2)

\* service.py:124-128
EmailSuccessful(results) ==
    Cardinality({i \in 1..Len(results) :
                    ~results[i].raised /\ results[i].success})

\* service.py:132-153
EmailRow(r, q, results) ==
    LET successful_count == EmailSuccessful(results)
        failed_count == Len(results) - successful_count
    IN  LogRow(r, q.batch_id, "email", Len(q.to),
               EmailRowStatus(successful_count, failed_count),
               successful_count, failed_count, provider_name(q.provider),
               CostStr(0, FALSE),
               IF successful_count > 0 THEN NoText
               ELSE <<"All emails failed">>,
               IF successful_count > 0 THEN "utcnow" ELSE "None")

\* service.py:158-168
EmailResult(q, results) ==
    LET successful_count == EmailSuccessful(results)
    IN  BatchNotificationResult(
            IF successful_count > 0 THEN "success" ELSE "failed", q.batch_id,
            Len(q.to), successful_count, Len(results) - successful_count,
            CostStr(0, FALSE), provider_name(q.provider),
            IF successful_count > 0 THEN "sent successfully"
            ELSE "Failed to send")

\* service.py:123-184 from the point where gather has returned results
EmailTail(r, q, results, db1) ==
    LET fault == IF \E i \in 1..Len(results) : results[i].raised
                 THEN "adapter" ELSE "None"
    IN  IF ~Constructs(mapped, ServiceRowFields)
        THEN Ending(logs, FailureResult(q), RolledBack(q.session),
                  IF fault = "None" THEN "construct" ELSE fault, "None")
        ELSE IF CommitSucceeds(logs, EmailRow(r, q, results), db1)
        THEN Ending(Append(logs, EmailRow(r, q, results)),
                  EmailResult(q, results), Committed(q.session), fault,
                  "None")
        ELSE Ending(logs, FailureResult(q),
                  RolledBack(FlushFailed(q.session)),
                  IF fault = "None" THEN "commit" ELSE fault,
                  CommitError(logs, EmailRow(r, q, results), db1))

\* the invocation is over: record what its ending left
Finished(q, ending) ==
    [q EXCEPT !.pc = "done", !.ret = ending.ret, !.session = ending.session,
              !.fault = ending.fault, !.commit_failed = ending.commit_failed]

\* the invocation raised e before any row was built
Propagated(q, e, fault) ==
    [q EXCEPT !.pc = "done", !.ret = RaisedToCaller(e), !.fault = fault]

(***************************************************************************)
(* Spec: the send invocations.  A coroutine runs without interruption up   *)
(* to its first await that suspends (the carrier HTTP call) and again from *)
(* the completion of that await to its return.                             *)
(***************************************************************************)
\* uuid.uuid4() (service.py:70, 195, 301)
Uuids == 1..MaxUuid

\* service.py:70-84, 195-201, 301-307: batch_id and the lookup of the
\* acting user, which begins the session's transaction
Begun(op, to, message, media, uuid, adapter) ==
    [IdleReq EXCEPT !.op = op, !.to = to, !.message = message,
                    !.media = media, !.batch_id = uuid,
                    !.provider = adapter, !.session.txn = TRUE]

\* service.py:186-210 up to the carrier call; 251-291 when the call raises
\* before it suspends
send_sms_start(r) ==
    /\ req[r].pc = "idle"
    /\ \E n \in RecipientCounts, uuid \in Uuids, db2 \in BOOLEAN :
         LET adapter == get_sms_provider(settings)
             q == Begun("sms", Recipients(n), TRUE, FALSE, uuid, adapter)
         IN  IF adapter = "ValueError"
             THEN /\ req' = [req EXCEPT ![r] =
                                Propagated(q, "ValueError", "config")]
                  /\ UNCHANGED logs
             ELSE IF ~CallAccepted(adapter, "sms")
             THEN LET e == SendTail(r, q, "sms", Raised("TypeError"),
                                    TRUE, db2)
                  IN  /\ req' = [req EXCEPT ![r] = Finished(q, e)]
                      /\ logs' = e.logs
             ELSE IF n = 0
             THEN LET e == SendTail(r, q, "sms", Raised("IndexError"),
                                    TRUE, db2)
                  IN  /\ req' = [req EXCEPT ![r] = Finished(q, e)]
                      /\ logs' = e.logs
             ELSE /\ req' = [req EXCEPT ![r] = [q EXCEPT !.pc = "awaiting"]]
                  /\ UNCHANGED logs
    /\ UNCHANGED <<bulk, settings, mapped, query, svc, fan, tr, cap, loop, tpl, dep>>

\* service.py:205-291 from the completion of the carrier call(s)
send_sms_finish(r) ==
    /\ req[r].pc = "awaiting"
    /\ req[r].op = "sms"
    /\ \E outcomes \in [1..NumCalls("sms", req[r].to) -> CarrierOutcomes],
          db1 \in BOOLEAN, db2 \in BOOLEAN :
         LET e == SendTail(r, req[r], "sms",
                           TermiiSMS_send_sms(req[r].to, outcomes), db1, db2)
         IN  /\ req' = [req EXCEPT ![r] = Finished(req[r], e)]
             /\ logs' = e.logs
    /\ UNCHANGED <<bulk, settings, mapped, query, svc, fan, tr, cap, loop, tpl, dep>>

\* service.py:293-329 up to the carrier call; 309-321 when the input is
\* rejected; 370-410 when the call raises before it suspends
send_whatsapp_start(r) ==
    /\ req[r].pc = "idle"
    /\ \E n \in RecipientCounts, uuid \in Uuids, message \in BOOLEAN,
          media \in BOOLEAN, db2 \in BOOLEAN :
         LET adapter == get_whatsapp_provider(settings)
             q == Begun("whatsapp", Recipients(n), message, media, uuid,
                        adapter)
         IN  IF adapter = "ValueError"
             THEN /\ req' = [req EXCEPT ![r] =
                                Propagated(q, "ValueError", "config")]
                  /\ UNCHANGED logs
             ELSE IF ~message /\ ~media
             THEN /\ req' = [req EXCEPT ![r] =
                       [q EXCEPT !.pc = "done", !.fault = "rejected",
                                 !.ret = FailureResult(q)]]
                  /\ UNCHANGED logs
             ELSE IF ~CallAccepted(adapter, "whatsapp")
             THEN LET e == SendTail(r, q, "whatsapp", Raised("TypeError"),
                                    TRUE, db2)
                  IN  /\ req' = [req EXCEPT ![r] = Finished(q, e)]
                      /\ logs' = e.logs
             ELSE IF n = 0
             THEN LET e == SendTail(r, q, "whatsapp", Raised("IndexError"),
                                    TRUE, db2)
                  IN  /\ req' = [req EXCEPT ![r] = Finished(q, e)]
                      /\ logs' = e.logs
             ELSE /\ req' = [req EXCEPT ![r] = [q EXCEPT !.pc = "awaiting"]]
                  /\ UNCHANGED logs
    /\ UNCHANGED <<bulk, settings, mapped, query, svc, fan, tr, cap, loop, tpl, dep>>

\* service.py:325-410 from the completion of the carrier call
send_whatsapp_finish(r) ==
    /\ req[r].pc = "awaiting"
    /\ req[r].op = "whatsapp"
    /\ \E outcomes \in [1..NumCalls("whatsapp", req[r].to) ->
                            CarrierOutcomes],
          db1 \in BOOLEAN, db2 \in BOOLEAN :
         LET e == SendTail(r, req[r], "whatsapp",
                           TermiiWhatsApp_send_whatsapp(req[r].to, outcomes,
                                                        req[r].media),
                           db1, db2)
         IN  /\ req' = [req EXCEPT ![r] = Finished(req[r], e)]
             /\ logs' = e.logs
    /\ UNCHANGED <<bulk, settings, mapped, query, svc, fan, tr, cap, loop, tpl, dep>>

\* service.py:49-121 up to gather.  The adapter is the one the factory
\* returns, or a TermiiEmailProvider (email/termii.py) the caller has put
\* in _email_provider: it is the adapter whose send_email takes the
\* keywords of service.py:113-118, and no entry of the factory builds it.
send_email_start(r) ==
    /\ req[r].pc = "idle"
    /\ \E n \in 0..MaxEmailRecipients, uuid \in Uuids, preset \in BOOLEAN,
          db1 \in BOOLEAN :
         LET adapter == IF preset THEN "TermiiEmailProvider"
                        ELSE get_email_provider(settings)
             q == Begun("email", Recipients(n), TRUE, FALSE, uuid, adapter)
         IN  IF adapter = "ValueError"
             THEN \* n > 0: raised at line 113; n = 0: raised at line 143
                  \* and again at line 181, after the rollback of line 172
                  /\ req' = [req EXCEPT ![r] =
                       [Propagated(q, "ValueError", "config") EXCEPT
                          !.session = IF n = 0 THEN RolledBack(q.session)
                                      ELSE q.session]]
                  /\ UNCHANGED logs
             ELSE IF n > 0 /\ ~CallAccepted(adapter, "email")
             THEN /\ req' = [req EXCEPT ![r] =
                                Propagated(q, "TypeError", "adapter")]
                  /\ UNCHANGED logs
             ELSE IF n = 0
             THEN LET e == EmailTail(r, q, << >>, db1)
                  IN  /\ req' = [req EXCEPT ![r] = Finished(q, e)]
                      /\ logs' = e.logs
             ELSE /\ req' = [req EXCEPT ![r] = [q EXCEPT !.pc = "awaiting"]]
                  /\ UNCHANGED logs
    /\ UNCHANGED <<bulk, settings, mapped, query, svc, fan, tr, cap, loop, tpl, dep>>

\* service.py:121-184 from the completion of gather
send_email_finish(r) ==
    /\ req[r].pc = "awaiting"
    /\ req[r].op = "email"
    /\ \E outcomes \in [1..Len(req[r].to) -> CarrierOutcomes],
          db1 \in BOOLEAN :
         LET results == [i \in 1..Len(req[r].to) |-> single_send(outcomes[i])]
             e == EmailTail(r, req[r], results, db1)
         IN  /\ req' = [req EXCEPT ![r] = Finished(req[r], e)]
             /\ logs' = e.logs
    /\ UNCHANGED <<bulk, settings, mapped, query, svc, fan, tr, cap, loop, tpl, dep>>

(***************************************************************************)
(* The log query endpoints (routers/notifications.py)                      *)
(***************************************************************************)
\* the attributes get_batch_log reads from the row it found (lines 107-135)
BatchLogAttributes ==
    {"id", "batch_id", "type", "channel", "message", "total_recipients",
     "recipient_sample", "successful_count", "failed_count", "provider",
     "provider_message_id", "total_cost", "status", "error_message",
     "created_by_email", "created_at", "sent_at", "completed_at"}

\* the attributes get_notification_stats reads from each row (lines 209-249)
StatsAttributes ==
    {"total_recipients", "successful_count", "failed_count", "total_cost",
     "type", "channel"}

\* reading an attribute the mapped class does not have raises
\* AttributeError
HasAttributes(m, attributes) == attributes \subseteq MappedAttributes(m)

\* what an endpoint answers: the HTTP status and the figures of the body
Response(endpoint, status_code, batch_id, total, succ, fail, count) ==
    [endpoint |-> endpoint, status_code |-> status_code,
     batch_id |-> batch_id, total_recipients |-> total,
     successful_count |-> succ, failed_count |-> fail, count |-> count]

IdleQuery == Response("none", 0, 0, NoCount, NoCount, NoCount, NoCount)

\* routers/notifications.py:94-96: .filter(batch_id == ...).first()
FirstWithBatchId(rows, batch_id) ==
    LET found == {i \in 1..Len(rows) : rows[i].batch_id = batch_id}
    IN  IF found = {} THEN 0
        ELSE CHOOSE i \in found : \A j \in found : i <= j

\* routers/notifications.py:83-136
get_batch_log(rows, m, batch_id) ==
    LET i == FirstWithBatchId(rows, batch_id)
    IN  IF i = 0
        THEN Response("get_batch_log", 404, batch_id, NoCount, NoCount,
                      NoCount, NoCount)
        ELSE IF ~HasAttributes(m, BatchLogAttributes)
        THEN Response("get_batch_log", 500, batch_id, NoCount, NoCount,
                      NoCount, NoCount)
        ELSE Response("get_batch_log", 200, rows[i].batch_id,
                      rows[i].total_recipients, rows[i].successful_count,
                      rows[i].failed_count, 1)

\* the rows a SELECT with the type filter of lines 159-160 returns
RowsOfType(rows, notification_type) ==
    SelectSeq(rows, LAMBDA row : notification_type = "None"
                                 \/ row.type = notification_type)

\* routers/notifications.py:139-184: total is the number of rows that pass
\* the filter, count the number of rows on the page
get_notification_logs(rows, m, notification_type, limit, skip) ==
    IF notification_type # "None" /\ ~HasAttributes(m, {"type"})
    THEN Response("get_notification_logs", 500, 0, NoCount, NoCount,
                  NoCount, NoCount)
    ELSE LET passed == Len(RowsOfType(rows, notification_type))
             page == IF passed - skip < 0 THEN 0 ELSE Min(limit, passed - skip)
         IN  Response("get_notification_logs", 200, 0, passed, NoCount,
                      NoCount, page)

RECURSIVE SumOver(_, _, _)
\* sum(log.<field> for log in logs), lines 210-212
SumOver(rows, field, k) ==
    IF k = 0 THEN 0 ELSE SumOver(rows, field, k - 1) + rows[k][field]

\* routers/notifications.py:187-264, the summary block
get_notification_stats(rows, m) ==
    IF rows # << >> /\ ~HasAttributes(m, StatsAttributes)
    THEN Response("get_notification_stats", 500, 0, NoCount, NoCount,
                  NoCount, NoCount)
    ELSE Response("get_notification_stats", 200, 0,
                  SumOver(rows, "total_recipients", Len(rows)),
                  SumOver(rows, "successful_count", Len(rows)),
                  SumOver(rows, "failed_count", Len(rows)), Len(rows))

\* the table after an endpoint that deletes the oldest row it has read
AfterSelects_pruning(rows) == IF rows = << >> THEN rows ELSE Tail(rows)

\* the table after an endpoint that issued only SELECT statements and whose
\* session get_db closes without a commit (database.py:54-70)
AfterSelects(rows) == rows

\* page sizes and offsets of a list request (Query(20, ge=1, le=100))
Limits == {1, 20}
Skips == {0, 1}
TypeFilters == {"None", "sms", "whatsapp", "email"}

get_batch_log_request ==
    /\ \E batch_id \in Uuids :
         query' = get_batch_log(logs, mapped, batch_id)
    /\ logs' = AfterSelects(logs)
    /\ UNCHANGED <<bulk, settings, mapped, req, svc, fan, tr, cap, loop, tpl, dep>>

get_notification_logs_request ==
    /\ \E notification_type \in TypeFilters, limit \in Limits,
          skip \in Skips :
         query' = get_notification_logs(logs, mapped, notification_type,
                                        limit, skip)
    /\ logs' = AfterSelects(logs)
    /\ UNCHANGED <<bulk, settings, mapped, req, svc, fan, tr, cap, loop, tpl, dep>>

get_notification_stats_request ==
    /\ query' = get_notification_stats(logs, mapped)
    /\ logs' = AfterSelects(logs)
    /\ UNCHANGED <<bulk, settings, mapped, req, svc, fan, tr, cap, loop, tpl, dep>>

(***************************************************************************)
(* NotificationService: the adapters of one instance                       *)
(***************************************************************************)
\* the most factory calls one service makes for a channel
MaxFactoryCalls == 2

Channels == {"email", "sms", "whatsapp"}

\* ErrorMessages.MISSING_CREDENTIALS / PROVIDER_NOT_FOUND (constants.py:63,
\* 68) at the head of the ValueError of factory.py:14-30; "None" when the
\* factory returns
get_email_provider_error(cfg) ==
    IF Lower(cfg.EMAIL_PROVIDER) = "aws_ses"
    THEN IF cfg.AWS_ACCESS_KEY = "" \/ cfg.AWS_SECRET_KEY = ""
         THEN "MISSING_CREDENTIALS" ELSE "None"
    ELSE "PROVIDER_NOT_FOUND"

\* factory.py:33-57
get_sms_provider_error(cfg) ==
    IF Lower(cfg.SMS_PROVIDER) = "termii"
    THEN IF cfg.TERMII_API_KEY = "" THEN "MISSING_CREDENTIALS" ELSE "None"
    ELSE IF Lower(cfg.SMS_PROVIDER) = "twilio"
    THEN IF cfg.TWILIO_ACCOUNT_SID = "" \/ cfg.TWILIO_AUTH_TOKEN = ""
         THEN "MISSING_CREDENTIALS" ELSE "None"
    ELSE "PROVIDER_NOT_FOUND"

\* factory.py:60-84
get_whatsapp_provider_error(cfg) ==
    IF Lower(cfg.WHATSAPP_PROVIDER) = "termii"
    THEN IF cfg.TERMII_API_KEY = "" THEN "MISSING_CREDENTIALS" ELSE "None"
    ELSE IF Lower(cfg.WHATSAPP_PROVIDER) = "twilio"
    THEN IF cfg.TWILIO_ACCOUNT_SID = "" \/ cfg.TWILIO_AUTH_TOKEN = ""
         THEN "MISSING_CREDENTIALS" ELSE "None"
    ELSE "PROVIDER_NOT_FOUND"

\* the factory function each provider property calls (service.py:32, 39, 46)
Factory(channel, cfg) ==
    CASE channel = "email" -> get_email_provider(cfg)
      [] channel = "sms" -> get_sms_provider(cfg)
      [] OTHER -> get_whatsapp_provider(cfg)

FactoryError(channel, cfg) ==
    CASE channel = "email" -> get_email_provider_error(cfg)
      [] channel = "sms" -> get_sms_provider_error(cfg)
      [] OTHER -> get_whatsapp_provider_error(cfg)

\* an adapter object: its class and which call of the channel's factory
\* made it (two calls make two objects)
Adapter(class, serial) == [class |-> class, serial |-> serial]

\* self._email_provider = None (service.py:24-26)
NoAdapter == Adapter("None", 0)

\* what one access to a provider property did
Access(channel, before, called, value, error) ==
    [channel |-> channel, before |-> before, called |-> called,
     value |-> value, error |-> error]

\* the property always calls the factory and stores what it returns
provider_property_uncached(channel, cached, cfg, serial) ==
    IF Factory(channel, cfg) = "ValueError"
    THEN [cache |-> cached,
          access |-> Access(channel, cached, TRUE, NoAdapter,
                            FactoryError(channel, cfg))]
    ELSE [cache |-> Adapter(Factory(channel, cfg), serial),
          access |-> Access(channel, cached, TRUE,
                            Adapter(Factory(channel, cfg), serial), "None")]

\* service.py:28-47: the cached adapter, or the one the factory makes now;
\* serial numbers the factory call
provider_property(channel, cached, cfg, serial) ==
    IF cached # NoAdapter
    THEN [cache |-> cached,
          access |-> Access(channel, cached, FALSE, cached, "None")]
    ELSE IF Factory(channel, cfg) = "ValueError"
    THEN [cache |-> NoAdapter,
          access |-> Access(channel, cached, TRUE, NoAdapter,
                            FactoryError(channel, cfg))]
    ELSE [cache |-> Adapter(Factory(channel, cfg), serial),
          access |-> Access(channel, cached, TRUE,
                            Adapter(Factory(channel, cfg), serial), "None")]

\* service.py:22-26
IdleService ==
    [cache |-> [ch \in Channels |-> NoAdapter],
     factory_calls |-> [ch \in Channels |-> 0],
     constructed |-> [ch \in Channels |-> 0],
     last |-> Access("none", NoAdapter, FALSE, NoAdapter, "None")]

\* one read of self.<channel>_provider
AccessProvider(channel) ==
    /\ svc.factory_calls[channel] < MaxFactoryCalls
    /\ LET got == provider_property(channel, svc.cache[channel], settings,
                                    svc.factory_calls[channel] + 1)
       IN  svc' = [svc EXCEPT
                     !.cache[channel] = got.cache,
                     !.factory_calls[channel] =
                         IF got.access.called THEN @ + 1 ELSE @,
                     !.constructed[channel] =
                         IF got.access.called /\ got.access.error = "None"
                         THEN @ + 1 ELSE @,
                     !.last = got.access]
    /\ UNCHANGED <<bulk, settings, mapped, logs, req, query, fan, tr, cap, loop, tpl, dep>>

\* service.py:29-33
email_provider == AccessProvider("email")
\* service.py:36-40
sms_provider == AccessProvider("sms")
\* service.py:43-47
whatsapp_provider == AccessProvider("whatsapp")

\* config.py:27-45: the carrier names and credentials a deployment can set
CarrierNames == {"termii", "Twilio", "aws_ses", "nexmo"}
Secrets == {"", "set"}

FactoryConfigs ==
    [EMAIL_PROVIDER : {"aws_ses", "termii", "nexmo"},
     SMS_PROVIDER : CarrierNames, WHATSAPP_PROVIDER : CarrierNames,
     TERMII_API_KEY : Secrets, TWILIO_ACCOUNT_SID : Secrets,
     TWILIO_AUTH_TOKEN : Secrets, AWS_ACCESS_KEY : Secrets,
     AWS_SECRET_KEY : Secrets]

(***************************************************************************)
(* send_email: the fan-out                                                 *)
(***************************************************************************)
\* the longest recipient list of a fan-out
MaxFanout == 51

\* recipient counts of a fan-out: the short lists and the longest ones
FanCounts == {n \in 0..MaxFanout : n <= 2 \/ n >= MaxFanout - 1}

\* what the template store (models.py:131, NotificationTemplate.name and
\* is_active) holds under the name the request gives
TemplateStates == {"active", "inactive", "missing"}

IdleFan ==
    [pc |-> "idle", to |-> << >>, template |-> "active", calls |-> 0,
     in_flight |-> 0, succeeded |-> 0, ret |-> NoReturn]

\* the gathered results of a fan-out in which `succeeded` of the n carrier
\* calls were accepted; the row and the response depend on the results only
\* through that number (service.py:124-125)
FanResults(n, succeeded) ==
    [i \in 1..n |-> single_send(IF i <= succeeded THEN "ok" ELSE "rejected")]

\* service.py:49-121 with a TermiiEmailProvider as the adapter: one
\* coroutine per recipient is created (lines 104-118) and gather starts
\* them all (line 121); each runs to its client.post (email/termii.py:67)
\* before any response is handled
FanDispatch ==
    /\ fan.pc = "idle"
    /\ \E n \in FanCounts, template \in TemplateStates :
         fan' = [fan EXCEPT !.pc = "inflight", !.to = Recipients(n),
                            !.template = template, !.calls = n,
                            !.in_flight = n]
    /\ UNCHANGED <<bulk, settings, mapped, logs, req, query, svc, tr, cap, loop, tpl, dep>>

\* email/termii.py:67-122: one carrier call completes
CallDone ==
    /\ fan.pc = "inflight"
    /\ fan.in_flight > 0
    /\ \E accepted \in BOOLEAN :
         fan' = [fan EXCEPT !.in_flight = @ - 1,
                            !.succeeded = IF accepted THEN @ + 1 ELSE @]
    /\ UNCHANGED <<bulk, settings, mapped, logs, req, query, svc, tr, cap, loop, tpl, dep>>

\* service.py:121-184: gather returns when every call has completed
FanReturn ==
    /\ fan.pc = "inflight"
    /\ fan.in_flight = 0
    /\ \E uuid \in Uuids, db1 \in BOOLEAN :
         LET q == Begun("email", fan.to, TRUE, FALSE, uuid,
                        "TermiiEmailProvider")
             e == EmailTail("r1", q, FanResults(Len(fan.to), fan.succeeded),
                            db1)
         IN  /\ fan' = [fan EXCEPT !.pc = "done", !.ret = e.ret]
             /\ logs' = e.logs
    /\ UNCHANGED <<bulk, settings, mapped, req, query, svc, tr, cap, loop, tpl, dep>>

(***************************************************************************)
(* TemplateRenderer                                                        *)
(*                                                                         *)
(* A str is the sequence of its characters.  A variable map is a dict: the *)
(* sequence of its items in insertion order, with distinct keys.  A value  *)
(* is a str or an int, which render passes through str().                 *)
(***************************************************************************)
\* longest template, in pieces of Pieces
MaxPieces == 3

\* the pieces templates are put together from: placeholders of a word key
\* and of a key that is not made of word characters, literal text, and a
\* lone brace
Pieces ==
    { <<"{", "{", "a", "}", "}">>, <<"{", "{", "b", "}", "}">>,
      <<"{", "{", "-", "}", "}">>, <<"a">>, <<"{">> }

RECURSIVE Joined(_, _)
\* "".join(pieces[1..k])
Joined(pieces, k) ==
    IF k = 0 THEN << >> ELSE Joined(pieces, k - 1) \o pieces[k]

Templates ==
    UNION { {Joined(ps, n) : ps \in [1..n -> Pieces]} : n \in 0..MaxPieces }

Keys == { <<"a">>, <<"b">>, <<"-">> }

StrValue(text) == [kind |-> "str", text |-> text, n |-> 0]
IntValue(n) == [kind |-> "int", text |-> << >>, n |-> n]

Values == { StrValue(<<"b">>), StrValue(<<"{", "{", "b", "}", "}">>),
            IntValue(7) }

\* dicts of at most two items
Dicts ==
    UNION { {d \in [1..n -> [key : Keys, value : Values]] :
                \A i, j \in 1..n : d[i].key = d[j].key => i = j}
            : n \in {0, 1, 2} }

\* the decimal digits of str(n) for 0 <= n <= 9
DigitChar(n) ==
    CASE n = 0 -> "0" [] n = 1 -> "1" [] n = 2 -> "2" [] n = 3 -> "3"
      [] n = 4 -> "4" [] n = 5 -> "5" [] n = 6 -> "6" [] n = 7 -> "7"
      [] n = 8 -> "8" [] OTHER -> "9"

\* str(value), template_renderer.py:37
Str(value) ==
    IF value.kind = "int" THEN <<DigitChar(value.n)>> ELSE value.text

\* f"{{{{{key}}}}}", template_renderer.py:36
Placeholder(key) == <<"{", "{">> \o key \o <<"}", "}">>

\* s[i:].startswith(old), positions counted from 1
StartsAt(s, old, i) ==
    /\ i + Len(old) - 1 <= Len(s)
    /\ SubSeq(s, i, i + Len(old) - 1) = old

RECURSIVE ReplaceFrom(_, _, _, _)
\* s[i:].replace(old, new): the non-overlapping occurrences, leftmost first
ReplaceFrom(s, old, new, i) ==
    IF i > Len(s) THEN << >>
    ELSE IF StartsAt(s, old, i)
    THEN new \o ReplaceFrom(s, old, new, i + Len(old))
    ELSE <<s[i]>> \o ReplaceFrom(s, old, new, i + 1)

\* str.replace(old, new) for a non-empty old
Replace(s, old, new) == ReplaceFrom(s, old, new, 1)

RECURSIVE RenderLoop(_, _, _)
\* template_renderer.py:35-37 after the first k items of the dict
RenderLoop(rendered, variables, k) ==
    IF k = 0 THEN rendered
    ELSE Replace(RenderLoop(rendered, variables, k - 1),
                 Placeholder(variables[k].key), Str(variables[k].value))

\* template_renderer.py:12-39
render(template, variables) ==
    IF template = << >> THEN << >>
    ELSE RenderLoop(template, variables, Len(variables))

\* the characters \w matches, among those of the templates
WordChars == {"a", "b", "7"}

RECURSIVE WordRun(_, _)
\* the length of the longest run of word characters of s from position i
WordRun(s, i) ==
    IF i > Len(s) \/ s[i] \notin WordChars THEN 0 ELSE 1 + WordRun(s, i + 1)

\* r'\{\{(\w+)\}\}' matches at position i (template_renderer.py:60)
MatchAt(s, i) ==
    /\ StartsAt(s, <<"{", "{">>, i)
    /\ WordRun(s, i + 2) > 0
    /\ StartsAt(s, <<"}", "}">>, i + 2 + WordRun(s, i + 2))

RECURSIVE FindAll(_, _)
\* re.findall(pattern, template) from position i (template_renderer.py:61)
FindAll(s, i) ==
    IF i > Len(s) THEN {}
    ELSE IF MatchAt(s, i)
    THEN {SubSeq(s, i + 2, i + 1 + WordRun(s, i + 2))}
         \cup FindAll(s, i + 4 + WordRun(s, i + 2))
    ELSE FindAll(s, i + 1)

\* template_renderer.py:41-64
extract_variables(template) ==
    IF template = << >> THEN {} ELSE FindAll(template, 1)

IdleRender ==
    [pc |-> "idle", template |-> << >>, variables |-> << >>,
     rendered |-> << >>, twice |-> << >>, extracted |-> {}]

\* TemplateRenderer.render(template, variables)
Render ==
    /\ tr.pc = "input"
    /\ tr' = [tr EXCEPT !.pc = "rendered",
                        !.rendered = render(tr.template, tr.variables)]
    /\ UNCHANGED <<bulk, settings, mapped, logs, req, query, svc, fan, cap, loop, tpl, dep>>

\* TemplateRenderer.render(rendered, variables): the output rendered again
RenderAgain ==
    /\ tr.pc = "rendered"
    /\ tr' = [tr EXCEPT !.pc = "twice",
                        !.twice = render(tr.rendered, tr.variables)]
    /\ UNCHANGED <<bulk, settings, mapped, logs, req, query, svc, fan, cap, loop, tpl, dep>>

\* TemplateRenderer.extract_variables(template)
Extract ==
    /\ tr.pc = "twice"
    /\ tr' = [tr EXCEPT !.pc = "extracted",
                        !.extracted = extract_variables(tr.template)]
    /\ UNCHANGED <<bulk, settings, mapped, logs, req, query, svc, fan, cap, loop, tpl, dep>>

(***************************************************************************)
(* The capture extract endpoint (routers/capture.py, ai_extraction.py)     *)
(*                                                                         *)
(* An uploaded file is its content type and what the AI provider does with *)
(* it: the call raises, or it returns a JSON object whose is_student is    *)
(* null, a boolean, or a value that is not a boolean.                      *)
(***************************************************************************)
\* most files in one request
MaxFiles == 3

\* routers/capture.py:30
valid_types == {"image/jpeg", "image/png", "image/webp", "application/pdf"}

ContentTypes == {"image/jpeg", "application/pdf", "text/plain"}
Extractions == {"raised", "null", "true", "maybe"}

UploadFile(content_type, extraction) ==
    [content_type |-> content_type, extraction |-> extraction]

FileLists ==
    UNION { [1..n -> {UploadFile(t, x) : t \in ContentTypes,
                                          x \in Extractions}]
            : n \in 0..MaxFiles }

\* the validation loop stopping after the first file
InvalidFiles_first_only(files) ==
    {k \in 1..Min(1, Len(files)) : files[k].content_type \notin valid_types}

\* routers/capture.py:31-32: the files the validation loop refuses
InvalidFiles(files) ==
    {k \in 1..Len(files) : files[k].content_type \notin valid_types}

\* an element of the list process_batch returns: the extracted object of
\* file k, or the error dict of ai_extraction.py:214
BatchResult(error, k, is_student) ==
    [error |-> error, file |-> k, is_student |-> is_student]

\* ai_extraction.py:194-214: one iteration of the loop
process_file(file, k) ==
    IF file.extraction = "raised"
    THEN BatchResult(TRUE, k, "null")
    ELSE BatchResult(FALSE, k,
             IF file.extraction = "null" THEN "false" ELSE file.extraction)

\* routers/capture.py:43-54
cleaned_results(results) == SelectSeq(results, LAMBDA res : ~res.error)

\* response_model=List[schemas.ConvertBase] (routers/capture.py:11,
\* schemas.py:6-23): is_student: bool refuses a value that is not a boolean
ConvertBaseAccepts(res) == res.is_student \in {"true", "false"}

IdleCapture ==
    [pc |-> "idle", files |-> << >>, configured |-> TRUE, i |-> 0,
     results |-> << >>, provider_calls |-> 0, status_code |-> 0,
     entries |-> << >>]

\* the request is answered with status_code
Answered(c, status_code, entries) ==
    [c EXCEPT !.pc = "done", !.status_code = status_code,
              !.entries = entries]

\* routers/capture.py:12-40 and ai_extraction.py:189-191: the request
\* validation of files: List[UploadFile] = File(...), the two checks of the
\* handler, and the construction of the provider (configured: its API key
\* is set; the constructors raise HTTPException(500) otherwise, which the
\* handler's except turns into its 500)
extract_data_start ==
    /\ cap.pc = "idle"
    /\ \E files \in FileLists, configured \in BOOLEAN, validated \in BOOLEAN :
         LET c == [IdleCapture EXCEPT !.files = files,
                                      !.configured = configured]
         IN  cap' = IF files = << >> /\ validated
                    THEN Answered(c, 422, << >>)
                    ELSE IF files = << >>
                    THEN Answered(c, 400, << >>)
                    ELSE IF InvalidFiles(files) # {}
                    THEN Answered(c, 400, << >>)
                    ELSE IF ~configured
                    THEN Answered(c, 500, << >>)
                    ELSE [c EXCEPT !.pc = "processing", !.i = 1]
    /\ UNCHANGED <<bulk, settings, mapped, logs, req, query, svc, fan, tr, loop, tpl, dep>>

\* ai_extraction.py:193-214: the provider is awaited for the next file
process_batch_step ==
    /\ cap.pc = "processing"
    /\ cap.i <= Len(cap.files)
    /\ cap' = [cap EXCEPT
                 !.results = Append(@, process_file(cap.files[cap.i], cap.i)),
                 !.provider_calls = @ + 1,
                 !.i = @ + 1]
    /\ UNCHANGED <<bulk, settings, mapped, logs, req, query, svc, fan, tr, loop, tpl, dep>>

\* routers/capture.py:40-56 from the return of process_batch, and the
\* serialisation of the returned list through the response model
extract_data_finish ==
    /\ cap.pc = "processing"
    /\ cap.i > Len(cap.files)
    /\ LET cleaned == cleaned_results(cap.results)
       IN  cap' = IF \A k \in 1..Len(cleaned) : ConvertBaseAccepts(cleaned[k])
                  THEN Answered(cap, 200, cleaned)
                  ELSE Answered(cap, 500, << >>)
    /\ UNCHANGED <<bulk, settings, mapped, logs, req, query, svc, fan, tr, loop, tpl, dep>>

(***************************************************************************)
(* The event loop: adapter calls as coroutines on the one thread           *)
(*                                                                         *)
(* A coroutine holds the thread from the moment it is resumed until it     *)
(* awaits something that is not ready.  The Termii adapters await the      *)
(* post of an httpx.AsyncClient; the Twilio and AWS SES adapters call a    *)
(* synchronous client inside their async def.                              *)
(***************************************************************************)
Tasks == {"t1", "t2", "t3"}

AdapterClasses ==
    {"TermiiSMSProvider", "TermiiWhatsAppProvider", "TermiiEmailProvider",
     "TwilioSMSProvider", "TwilioWhatsAppProvider", "AWSEmailProvider"}

\* how the send method of an adapter makes its carrier call:
\*   "await"  await client.post(...) on an httpx.AsyncClient
\*            (sms/termii.py:43-57, 201-217, whatsapp/termii.py:49-68,
\*             135-154, email/termii.py:57-71)
\*   "sync"   self.client.messages.create(...) (sms/twilio.py:36-40,
\*            whatsapp/twilio.py:37-41), self.client.send_email(...)
\*            (email/aws_ses.py:49-56): the call returns when the carrier
\*            has answered
CarrierCall(adapter) ==
    IF adapter \in {"TermiiSMSProvider", "TermiiWhatsAppProvider",
                    "TermiiEmailProvider"}
    THEN "await" ELSE "sync"

IdleTask == [pc |-> "idle", adapter |-> "None"]

IdleLoop == [running |-> "none", task |-> [t \in Tasks |-> IdleTask]]

\* the carrier call of task t has been issued and is not yet answered
InFlight(t) == loop.task[t].pc \in {"suspended", "blocked"}

\* the loop runs task t from its start to its carrier call: an awaited call
\* suspends the task and frees the thread, a synchronous call keeps it
AdapterCallStart(t) ==
    /\ loop.running = "none"
    /\ loop.task[t].pc = "idle"
    /\ \E adapter \in AdapterClasses :
         loop' = IF CarrierCall(adapter) = "await"
                 THEN [loop EXCEPT !.task[t] =
                          [pc |-> "suspended", adapter |-> adapter]]
                 ELSE [loop EXCEPT !.task[t] =
                          [pc |-> "blocked", adapter |-> adapter],
                                   !.running = t]
    /\ UNCHANGED <<bulk, settings, mapped, logs, req, query, svc, fan, tr, cap, tpl, dep>>

\* the carrier answers the call of task t: a suspended task becomes ready
\* to be resumed; a task blocked in a synchronous call goes on to its
\* return without another await and gives the thread back
CarrierAnswers(t) ==
    /\ InFlight(t)
    /\ loop' = IF loop.task[t].pc = "suspended"
               THEN [loop EXCEPT !.task[t].pc = "ready"]
               ELSE [loop EXCEPT !.task[t].pc = "done", !.running = "none"]
    /\ UNCHANGED <<bulk, settings, mapped, logs, req, query, svc, fan, tr, cap, tpl, dep>>

\* the loop resumes a ready task, which runs to its return
AdapterCallResume(t) ==
    /\ loop.running = "none"
    /\ loop.task[t].pc = "ready"
    /\ loop' = [loop EXCEPT !.task[t].pc = "done"]
    /\ UNCHANGED <<bulk, settings, mapped, logs, req, query, svc, fan, tr, cap, tpl, dep>>

(***************************************************************************)
(* Template management (routers/templates.py) on notification_templates    *)
(*                                                                         *)
(* Each endpoint issues its SELECT and later its commit; requests served   *)
(* by different worker processes interleave between the two.  A request of *)
(* one process runs from its SELECT to its commit without interruption,    *)
(* which is the interleaving where the two steps are adjacent.             *)
(***************************************************************************)
\* most rows the table is let grow to
MaxTemplateRows == 3

TemplateNames == {"welcome", "reminder"}
TemplateRequests == {"q1", "q2"}

\* models.py:131-146: the columns the endpoints decide on
TemplateRow(name, is_active) == [name |-> name, is_active |-> is_active]

\* .filter(NotificationTemplate.name == name).first(): the position of the
\* row, 0 when there is none (routers/templates.py:27-29, 110-112, 154-156)
FirstNamed(rows, name) ==
    LET found == {i \in 1..Len(rows) : rows[i].name = name}
    IN  IF found = {} THEN 0
        ELSE CHOOSE i \in found : \A j \in found : i <= j

\* name without the unique index
UniqueName_unconstrained(rows, name) == TRUE

\* name = Column(String, unique=True, ...) (models.py:135): the INSERT of a
\* row whose name is taken fails
UniqueName(rows, name) == \A i \in 1..Len(rows) : rows[i].name # name

IdleTemplateRequest ==
    [pc |-> "idle", op |-> "none", name |-> "None", found |-> 0,
     is_active |-> "None", status_code |-> 0]

IdleTemplates ==
    [rows |-> << >>, req |-> [q \in TemplateRequests |-> IdleTemplateRequest]]

\* the values updates.is_active can take (schemas.py:292)
ActiveUpdates == {"None", "true", "false"}

\* routers/templates.py:26-35: the SELECT of create_template
create_template_select(q) ==
    /\ tpl.req[q].pc = "idle"
    /\ \E name \in TemplateNames :
         LET found == FirstNamed(tpl.rows, name)
             r == [IdleTemplateRequest EXCEPT !.op = "create",
                                              !.name = name, !.found = found]
         IN  tpl' = [tpl EXCEPT !.req[q] =
                        IF found # 0
                        THEN [r EXCEPT !.pc = "done", !.status_code = 400]
                        ELSE [r EXCEPT !.pc = "selected"]]
    /\ UNCHANGED <<bulk, settings, mapped, logs, req, query, svc, fan, tr, cap, loop, dep>>

\* routers/templates.py:37-59: db.add, db.commit; an INSERT the unique
\* index refuses raises IntegrityError, which nothing catches
create_template_commit(q) ==
    /\ tpl.req[q].pc = "selected"
    /\ tpl.req[q].op = "create"
    /\ Len(tpl.rows) < MaxTemplateRows
    /\ tpl' = IF UniqueName(tpl.rows, tpl.req[q].name)
              THEN [tpl EXCEPT
                      !.rows = Append(@, TemplateRow(tpl.req[q].name, TRUE)),
                      !.req[q].pc = "done", !.req[q].status_code = 201]
              ELSE [tpl EXCEPT !.req[q].pc = "done",
                               !.req[q].status_code = 500]
    /\ UNCHANGED <<bulk, settings, mapped, logs, req, query, svc, fan, tr, cap, loop, dep>>

\* routers/templates.py:110-118: the SELECT of update_template
update_template_select(q) ==
    /\ tpl.req[q].pc = "idle"
    /\ \E name \in TemplateNames, is_active \in ActiveUpdates :
         LET found == FirstNamed(tpl.rows, name)
             r == [IdleTemplateRequest EXCEPT
                     !.op = "update", !.name = name, !.found = found,
                     !.is_active = is_active]
         IN  tpl' = [tpl EXCEPT !.req[q] =
                        IF found = 0
                        THEN [r EXCEPT !.pc = "done", !.status_code = 404]
                        ELSE [r EXCEPT !.pc = "selected"]]
    /\ UNCHANGED <<bulk, settings, mapped, logs, req, query, svc, fan, tr, cap, loop, dep>>

\* routers/templates.py:120-144: the UPDATE of the row it loaded
update_template_commit(q) ==
    /\ tpl.req[q].pc = "selected"
    /\ tpl.req[q].op = "update"
    /\ tpl' = [tpl EXCEPT
                 !.rows[tpl.req[q].found].is_active =
                     IF tpl.req[q].is_active = "None" THEN @
                     ELSE tpl.req[q].is_active = "true",
                 !.req[q].pc = "done", !.req[q].status_code = 200]
    /\ UNCHANGED <<bulk, settings, mapped, logs, req, query, svc, fan, tr, cap, loop, dep>>

\* routers/templates.py:154-162: the SELECT of delete_template
delete_template_select(q) ==
    /\ tpl.req[q].pc = "idle"
    /\ \E name \in TemplateNames :
         LET found == FirstNamed(tpl.rows, name)
             r == [IdleTemplateRequest EXCEPT !.op = "delete",
                                              !.name = name, !.found = found]
         IN  tpl' = [tpl EXCEPT !.req[q] =
                        IF found = 0
                        THEN [r EXCEPT !.pc = "done", !.status_code = 404]
                        ELSE [r EXCEPT !.pc = "selected"]]
    /\ UNCHANGED <<bulk, settings, mapped, logs, req, query, svc, fan, tr, cap, loop, dep>>

\* routers/templates.py:164-169: is_active = False on the row it loaded
delete_template_commit(q) ==
    /\ tpl.req[q].pc = "selected"
    /\ tpl.req[q].op = "delete"
    /\ tpl' = [tpl EXCEPT !.rows[tpl.req[q].found].is_active = FALSE,
                          !.req[q].pc = "done", !.req[q].status_code = 204]
    /\ UNCHANGED <<bulk, settings, mapped, logs, req, query, svc, fan, tr, cap, loop, dep>>

\* the response is sent; the slot serves the next request
template_request_ends(q) ==
    /\ tpl.req[q].pc = "done"
    /\ tpl' = [tpl EXCEPT !.req[q] = IdleTemplateRequest]
    /\ UNCHANGED <<bulk, settings, mapped, logs, req, query, svc, fan, tr, cap, loop, dep>>

(***************************************************************************)
(* get_db (database.py:54-70): the generator behind Depends(get_db)        *)
(*                                                                         *)
(* The framework drives the generator as a context manager: it takes the   *)
(* first value yielded, runs the handler, and then resumes the generator,  *)
(* with next() when the handler returned and with throw(exc) when it       *)
(* raised.  A generator that yields again after throw() makes the context  *)
(* manager raise RuntimeError and stays suspended at that yield until it   *)
(* is closed or collected.                                                 *)
(***************************************************************************)
DbRequests == {"d1", "d2", "d3"}

\* database.py:55
retries == 3

\* what a handler can raise while it uses the session
HandlerErrors == {"OperationalError", "IntegrityError", "HTTPException"}

\* sessions: the state of each session SessionLocal() made, in order
IdleDependency ==
    [pc |-> "idle", attempt |-> 0, sessions |-> << >>, yields |-> 0,
     handler |-> "none", caller |-> "none"]

IdleDependencies == [d \in DbRequests |-> IdleDependency]

\* db.close() on the session made last (database.py:69-70)
CloseLast(sessions) == [sessions EXCEPT ![Len(sessions)] = "closed"]

\* database.py:58-61: the first pass of the loop up to its yield
get_db_enter(d) ==
    /\ dep[d].pc = "idle"
    /\ dep' = [dep EXCEPT ![d] =
                 [IdleDependency EXCEPT !.pc = "yielded",
                                        !.sessions = <<"open">>,
                                        !.yields = 1]]
    /\ UNCHANGED <<bulk, settings, mapped, logs, req, query, svc, fan, tr, cap, loop, tpl>>

\* the handler returned: next() resumes after the yield, break leaves the
\* loop through finally (database.py:62, 68-70)
handler_returns(d) ==
    /\ dep[d].pc = "yielded"
    /\ dep' = [dep EXCEPT ![d].pc = "exhausted",
                          ![d].handler = "returned",
                          ![d].sessions = CloseLast(@),
                          ![d].caller = "ok"]
    /\ UNCHANGED <<bulk, settings, mapped, logs, req, query, svc, fan, tr, cap, loop, tpl>>

\* the handler raised exc: throw(exc) at the yield (database.py:61-70).
\* An OperationalError is caught; before the last attempt the session is
\* closed after the sleep and the loop goes on to make and yield another
\* session, on which the context manager raises RuntimeError.  Any other
\* exception leaves through finally and reaches the caller.
handler_raises(d) ==
    /\ dep[d].pc = "yielded"
    /\ \E exc \in HandlerErrors :
         dep' = IF exc # "OperationalError"
                   \/ dep[d].attempt >= retries - 1
                THEN [dep EXCEPT ![d].pc = "exhausted",
                                 ![d].handler = exc,
                                 ![d].sessions = CloseLast(@),
                                 ![d].caller = exc]
                ELSE [dep EXCEPT ![d].pc = "suspended",
                                 ![d].handler = exc,
                                 ![d].attempt = @ + 1,
                                 ![d].sessions = Append(CloseLast(@), "open"),
                                 ![d].yields = @ + 1,
                                 ![d].caller = "RuntimeError"]
    /\ UNCHANGED <<bulk, settings, mapped, logs, req, query, svc, fan, tr, cap, loop, tpl>>

\* the abandoned generator is closed or collected: GeneratorExit at its
\* yield leaves through finally (database.py:68-70)
generator_finalized(d) ==
    /\ dep[d].pc = "suspended"
    /\ dep' = [dep EXCEPT ![d].pc = "exhausted",
                          ![d].sessions = CloseLast(@)]
    /\ UNCHANGED <<bulk, settings, mapped, logs, req, query, svc, fan, tr, cap, loop, tpl>>

(***************************************************************************)
(* Specifications                                                          *)
(***************************************************************************)
Mappings == {"models.py", "restructured"}

Init ==
    /\ bulk = [c \in BulkCalls |-> IdleBulk]
    /\ settings \in Configs
    /\ mapped \in Mappings
    /\ logs = << >>
    /\ req = [r \in Requests |-> IdleReq]
    /\ query = IdleQuery
    /\ svc = IdleService
    /\ fan = IdleFan
    /\ cap = IdleCapture
    /\ loop = IdleLoop
    /\ tpl = IdleTemplates
    /\ dep = IdleDependencies
    /\ tr = IdleRender

Next ==
    \E r \in Requests :
        \/ send_sms_start(r)
        \/ send_sms_finish(r)
        \/ send_whatsapp_start(r)
        \/ send_whatsapp_finish(r)
        \/ send_email_start(r)
        \/ send_email_finish(r)

Spec == Init /\ [][Next]_vars

InitBulk ==
    /\ bulk = [c \in BulkCalls |-> IdleBulk]
    /\ settings \in {cfg \in Configs : get_sms_provider(cfg) # "ValueError"
                                       /\ cfg.SMS_PROVIDER = "termii"}
    /\ mapped = "restructured"
    /\ logs = << >>
    /\ req = [r \in Requests |-> IdleReq]
    /\ query = IdleQuery
    /\ svc = IdleService
    /\ fan = IdleFan
    /\ cap = IdleCapture
    /\ loop = IdleLoop
    /\ tpl = IdleTemplates
    /\ dep = IdleDependencies
    /\ tr = IdleRender

NextBulk ==
    \E c \in BulkCalls :
        \/ BulkDispatch(c)
        \/ ChunkDone(c)
        \/ BulkReturn(c)
        \/ BulkReset(c)

SpecBulk == InitBulk /\ [][NextBulk]_vars

(***************************************************************************)
(* SpecLogs: one send invocation and the log query endpoints               *)
(***************************************************************************)
LogRequests == {"r1"}

\* a row an earlier SMS to one recipient, accepted by Termii, has committed
\* under batch_id 1
EarlierRow ==
    SuccessRow("r0",
               Begun("sms", Recipients(1), TRUE, FALSE, 1,
                     "TermiiSMSProvider"),
               "sms", TermiiSMS_send_sms(Recipients(1), <<"ok">>))

\* the table when the requests begin: empty, or holding the earlier row
\* where the service can have written it
EarlierTables ==
    IF mapped = "restructured"
       /\ get_sms_provider(settings) = "TermiiSMSProvider"
    THEN {<< >>, <<EarlierRow>>}
    ELSE {<< >>}

InitLogs ==
    /\ bulk = [c \in BulkCalls |-> IdleBulk]
    /\ settings \in Configs
    /\ mapped \in Mappings
    /\ logs \in EarlierTables
    /\ req = [r \in Requests |-> IdleReq]
    /\ query = IdleQuery
    /\ svc = IdleService
    /\ fan = IdleFan
    /\ cap = IdleCapture
    /\ loop = IdleLoop
    /\ tpl = IdleTemplates
    /\ dep = IdleDependencies
    /\ tr = IdleRender

NextLogs ==
    \/ \E r \in LogRequests :
        \/ send_sms_start(r)
        \/ send_sms_finish(r)
        \/ send_whatsapp_start(r)
        \/ send_whatsapp_finish(r)
        \/ send_email_start(r)
        \/ send_email_finish(r)
    \/ get_batch_log_request
    \/ get_notification_logs_request
    \/ get_notification_stats_request

SpecLogs == InitLogs /\ [][NextLogs]_vars

(***************************************************************************)
(* SpecFanout: one send_email and its carrier calls                        *)
(***************************************************************************)
InitFanout ==
    /\ bulk = [c \in BulkCalls |-> IdleBulk]
    /\ settings \in {cfg \in Configs : get_sms_provider(cfg) # "ValueError"
                                       /\ cfg.SMS_PROVIDER = "termii"}
    /\ mapped = "restructured"
    /\ logs = << >>
    /\ req = [r \in Requests |-> IdleReq]
    /\ query = IdleQuery
    /\ svc = IdleService
    /\ fan = IdleFan
    /\ cap = IdleCapture
    /\ loop = IdleLoop
    /\ tpl = IdleTemplates
    /\ dep = IdleDependencies
    /\ tr = IdleRender

NextFanout == FanDispatch \/ CallDone \/ FanReturn

SpecFanout == InitFanout /\ [][NextFanout]_vars

(***************************************************************************)
(* SpecProvider: one NotificationService resolving its adapters            *)
(***************************************************************************)
InitProvider ==
    /\ bulk = [c \in BulkCalls |-> IdleBulk]
    /\ settings \in FactoryConfigs
    /\ mapped = "restructured"
    /\ logs = << >>
    /\ req = [r \in Requests |-> IdleReq]
    /\ query = IdleQuery
    /\ svc = IdleService
    /\ fan = IdleFan
    /\ cap = IdleCapture
    /\ loop = IdleLoop
    /\ tpl = IdleTemplates
    /\ dep = IdleDependencies
    /\ tr = IdleRender

NextProvider == email_provider \/ sms_provider \/ whatsapp_provider

SpecProvider == InitProvider /\ [][NextProvider]_vars

(***************************************************************************)
(* SpecRender: the renderer applied to every template and variable map     *)
(***************************************************************************)
InitRender ==
    /\ bulk = [c \in BulkCalls |-> IdleBulk]
    /\ settings \in {cfg \in Configs : get_sms_provider(cfg) # "ValueError"
                                       /\ cfg.SMS_PROVIDER = "termii"}
    /\ mapped = "restructured"
    /\ logs = << >>
    /\ req = [r \in Requests |-> IdleReq]
    /\ query = IdleQuery
    /\ svc = IdleService
    /\ fan = IdleFan
    /\ cap = IdleCapture
    /\ loop = IdleLoop
    /\ tpl = IdleTemplates
    /\ dep = IdleDependencies
    /\ tr \in {[IdleRender EXCEPT !.pc = "input", !.template = t,
                                  !.variables = v] :
                  t \in Templates, v \in Dicts}

NextRender == Render \/ RenderAgain \/ Extract

SpecRender == InitRender /\ [][NextRender]_vars

(***************************************************************************)
(* SpecCapture: one request to the capture extract endpoint                *)
(***************************************************************************)
InitCapture ==
    /\ bulk = [c \in BulkCalls |-> IdleBulk]
    /\ settings \in {cfg \in Configs : get_sms_provider(cfg) # "ValueError"
                                       /\ cfg.SMS_PROVIDER = "termii"}
    /\ mapped = "restructured"
    /\ logs = << >>
    /\ req = [r \in Requests |-> IdleReq]
    /\ query = IdleQuery
    /\ svc = IdleService
    /\ fan = IdleFan
    /\ cap = IdleCapture
    /\ loop = IdleLoop
    /\ tpl = IdleTemplates
    /\ dep = IdleDependencies
    /\ tr = IdleRender

NextCapture ==
    extract_data_start \/ process_batch_step \/ extract_data_finish

SpecCapture == InitCapture /\ [][NextCapture]_vars

(***************************************************************************)
(* SpecLoop: adapter calls sharing the event loop thread                   *)
(***************************************************************************)
InitLoop ==
    /\ bulk = [c \in BulkCalls |-> IdleBulk]
    /\ settings \in {cfg \in Configs : get_sms_provider(cfg) # "ValueError"
                                       /\ cfg.SMS_PROVIDER = "termii"}
    /\ mapped = "restructured"
    /\ logs = << >>
    /\ req = [r \in Requests |-> IdleReq]
    /\ query = IdleQuery
    /\ svc = IdleService
    /\ fan = IdleFan
    /\ cap = IdleCapture
    /\ loop = IdleLoop
    /\ tpl = IdleTemplates
    /\ dep = IdleDependencies
    /\ tr = IdleRender

NextLoop ==
    \E t \in Tasks :
        \/ AdapterCallStart(t)
        \/ CarrierAnswers(t)
        \/ AdapterCallResume(t)

SpecLoop == InitLoop /\ [][NextLoop]_vars

(***************************************************************************)
(* SpecTemplates: template management requests                             *)
(***************************************************************************)
InitTemplates ==
    /\ bulk = [c \in BulkCalls |-> IdleBulk]
    /\ settings \in {cfg \in Configs : get_sms_provider(cfg) # "ValueError"
                                       /\ cfg.SMS_PROVIDER = "termii"}
    /\ mapped = "restructured"
    /\ logs = << >>
    /\ req = [r \in Requests |-> IdleReq]
    /\ query = IdleQuery
    /\ svc = IdleService
    /\ fan = IdleFan
    /\ cap = IdleCapture
    /\ loop = IdleLoop
    /\ tpl = IdleTemplates
    /\ dep = IdleDependencies
    /\ tr = IdleRender

NextTemplates ==
    \E q \in TemplateRequests :
        \/ create_template_select(q)
        \/ create_template_commit(q)
        \/ update_template_select(q)
        \/ update_template_commit(q)
        \/ delete_template_select(q)
        \/ delete_template_commit(q)
        \/ template_request_ends(q)

SpecTemplates == InitTemplates /\ [][NextTemplates]_vars

(***************************************************************************)
(* SpecSession: requests that depend on get_db                             *)
(***************************************************************************)
InitSession ==
    /\ bulk = [c \in BulkCalls |-> IdleBulk]
    /\ settings \in {cfg \in Configs : get_sms_provider(cfg) # "ValueError"
                                       /\ cfg.SMS_PROVIDER = "termii"}
    /\ mapped = "restructured"
    /\ logs = << >>
    /\ req = [r \in Requests |-> IdleReq]
    /\ query = IdleQuery
    /\ svc = IdleService
    /\ fan = IdleFan
    /\ cap = IdleCapture
    /\ loop = IdleLoop
    /\ tpl = IdleTemplates
    /\ dep = IdleDependencies
    /\ tr = IdleRender

NextSession ==
    \E d \in DbRequests :
        \/ get_db_enter(d)
        \/ handler_returns(d)
        \/ handler_raises(d)
        \/ generator_finalized(d)

SpecSession == InitSession /\ [][NextSession]_vars

(***************************************************************************)
(* Properties                                                              *)
(***************************************************************************)
Rows == {logs[i] : i \in 1..Len(logs)}

\* the rows invocation r inserted under its batch_id
RowsOf(r) ==
    {i \in 1..Len(logs) :
        logs[i].by = r /\ logs[i].batch_id = req[r].batch_id}

C2_OneRowPerResult ==
    \A r \in Requests :
        (req[r].pc = "done" /\ req[r].ret.kind = "result")
            => Cardinality(RowsOf(r)) = 1

\* C3: when the adapter call or the construction of the row raised, the
\* send does not raise to its caller: it returns a failed result with
\* successful_count 0 and failed_count the number of recipients.
C3_FailureIsReturned ==
    \A r \in Requests :
        (req[r].pc = "done" /\ req[r].fault \in {"adapter", "construct"})
            => /\ req[r].ret.kind = "result"
               /\ req[r].ret.status = "failed"
               /\ req[r].ret.successful_count = 0
               /\ req[r].ret.failed_count = Len(req[r].to)
               /\ req[r].ret.message # "None"

\* the status the batch rule gives to a pair of counts
BatchStatus(successful_count, failed_count) ==
    IF successful_count = 0 THEN "failed"
    ELSE IF failed_count = 0 THEN "sent" ELSE "partial"

\* C4: the status of every committed row is sent / partial / failed
\* according to its counts.
C4_StatusFollowsCounts ==
    \A row \in Rows :
        row.status = BatchStatus(row.successful_count, row.failed_count)

\* C5: no two committed rows have the same batch_id.
C5_BatchIdUnique ==
    \A i, j \in 1..Len(logs) :
        logs[i].batch_id = logs[j].batch_id => i = j

\* C5 witness: two invocations drew the same uuid; the row of the first is
\* committed and the commit of the second was refused.
C5_Witness ==
    \E r1, r2 \in Requests :
        /\ r1 # r2
        /\ req[r1].pc = "done" /\ req[r2].pc = "done"
        /\ req[r1].batch_id = req[r2].batch_id
        /\ Cardinality(RowsOf(r1)) = 1
        /\ req[r2].commit_failed = "IntegrityError"
        /\ RowsOf(r2) = {}

RECURSIVE SumLen(_, _, _, _)
\* the number of recipients in the calls 1..k whose carrier answer is in
\* kinds
SumLen(calls, outcomes, kinds, k) ==
    IF k = 0 THEN 0
    ELSE SumLen(calls, outcomes, kinds, k - 1)
         + (IF outcomes[k] \in kinds THEN Len(calls[k]) ELSE 0)

RECURSIVE Concat(_, _)
\* calls[1] \o ... \o calls[k]
Concat(calls, k) ==
    IF k = 0 THEN << >> ELSE Concat(calls, k - 1) \o calls[k]

\* ceil(n / size)
CeilDiv(n, size) ==
    CHOOSE m \in 0..n : m * size >= n /\ (m = 0 \/ (m - 1) * size < n)

\* C6: a bulk send of n recipients issues ceil(n/100) carrier calls, each
\* of at most 100 recipients, whose lists are consecutive slices that
\* together are the request's recipient list.
C6_ChunksCoverRecipients ==
    \A c \in BulkCalls :
        bulk[c].pc # "idle"
            => /\ Len(bulk[c].calls) = CeilDiv(Len(bulk[c].to), 100)
               /\ \A k \in 1..Len(bulk[c].calls) :
                      Len(bulk[c].calls[k]) <= 100
               /\ Concat(bulk[c].calls, Len(bulk[c].calls)) = bulk[c].to

FailedAnswers == {"rejected", "timeout", "error"}

\* C8: a chunk whose carrier call times out, is rejected or raises becomes
\* a failed outcome of that chunk alone: the bulk send does not raise,
\* every sibling call has completed, and the recipients of the accepted
\* chunks are counted as successful.
C8_FailedChunkIsIsolated ==
    \A c \in BulkCalls :
        (bulk[c].pc = "done" /\ bulk[c].adapter = "sms")
            => /\ ~bulk[c].ret.raised
               /\ \A k \in 1..Len(bulk[c].calls) :
                    /\ bulk[c].results[k] # Pending
                    /\ bulk[c].outcomes[k] \in FailedAnswers
                         => /\ ~bulk[c].results[k].raised
                            /\ ~bulk[c].results[k].success
                            /\ bulk[c].results[k].successful_count = 0
                            /\ bulk[c].results[k].failed_count =
                                   Len(bulk[c].calls[k])
               /\ bulk[c].ret.successful_count =
                      SumLen(bulk[c].calls, bulk[c].outcomes, {"ok"},
                             Len(bulk[c].calls))

\* C8 witness: a finished two-chunk send in which the chunk that completed
\* first failed and the other was accepted.
C8_Witness ==
    \E c \in BulkCalls :
        /\ bulk[c].pc = "done" /\ bulk[c].adapter = "sms"
        /\ Len(bulk[c].calls) = 2
        /\ bulk[c].outcomes[bulk[c].order[1]] \in FailedAnswers
        /\ bulk[c].outcomes[bulk[c].order[2]] = "ok"
        /\ bulk[c].ret.successful_count > 0

\* the aggregate figures of two adapter results agree
SameAggregate(x, y) ==
    /\ x.successful_count = y.successful_count
    /\ x.failed_count = y.failed_count
    /\ PyFloat(x.cost) = PyFloat(y.cost)
    /\ x.success = y.success

C10_CommitFailureRolledBack ==
    \A r \in Requests :
        (req[r].pc = "done" /\ req[r].commit_failed # "None")
            => /\ req[r].session.rollbacks >= 1
               /\ RowsOf(r) = {}
               /\ (req[r].ret.kind = "raised"
                   \/ req[r].ret.status = "failed")
               /\ req[r].session.late = 0

\* C11: a lookup of a batch_id that a send has returned to its caller
\* answers 200 with the total_recipients, successful_count and failed_count
\* of the send's response, and a lookup of a batch_id that no row carries
\* answers 404.
C11_ReturnedBatchIsFound ==
    [][get_batch_log_request =>
        /\ \A r \in Requests :
             (/\ req[r].pc = "done"
              /\ req[r].ret.kind = "result"
              /\ req[r].ret.batch_id = query'.batch_id)
                => /\ query'.status_code = 200
                   /\ query'.total_recipients = req[r].ret.total_recipients
                   /\ query'.successful_count = req[r].ret.successful_count
                   /\ query'.failed_count = req[r].ret.failed_count
        /\ (\A i \in 1..Len(logs) : logs[i].batch_id # query'.batch_id)
             => query'.status_code = 404]_vars

\* the keys of a dict
KeysOf(variables) == {variables[i].key : i \in 1..Len(variables)}

\* variables[key]
ValueOf(variables, key) ==
    variables[CHOOSE i \in 1..Len(variables) : variables[i].key = key].value

RECURSIVE SubstitutedFrom(_, _, _)
\* the template from position i on with every placeholder of a key of
\* variables replaced by the str of its value, and all other text as it is
SubstitutedFrom(template, variables, i) ==
    IF i > Len(template) THEN << >>
    ELSE IF \E k \in KeysOf(variables) : StartsAt(template, Placeholder(k), i)
    THEN LET k == CHOOSE k \in KeysOf(variables) :
                      StartsAt(template, Placeholder(k), i)
         IN  Str(ValueOf(variables, k))
             \o SubstitutedFrom(template, variables, i + Len(Placeholder(k)))
    ELSE <<template[i]>> \o SubstitutedFrom(template, variables, i + 1)

\* C12: render(template, variables) is the template with every occurrence
\* of {{key}}, for each key of variables, replaced by str(variables[key]),
\* and with every other placeholder left verbatim.
C12_RenderSubstitutes ==
    tr.pc \in {"rendered", "twice", "extracted"}
        => tr.rendered = SubstitutedFrom(tr.template, tr.variables, 1)

\* the keys k, among Keys, such that {{k}} occurs in the template
PlaceholderKeys(template) ==
    {k \in Keys : \E i \in 1..Len(template) :
                      StartsAt(template, Placeholder(k), i)}

\* C13: when every placeholder of the template is a key of variables,
\* rendering the rendered text again changes nothing.
C13_RenderIdempotent ==
    (tr.pc \in {"twice", "extracted"}
        /\ PlaceholderKeys(tr.template) \subseteq KeysOf(tr.variables))
        => tr.twice = tr.rendered

\* the items of variables whose key is in keys, in their order
Restricted(variables, keys) ==
    SelectSeq(variables, LAMBDA item : item.key \in keys)

\* C14: extract_variables(t) is exactly the set of keys k such that {{k}}
\* occurs in t, and render(t, v) is render(t, v restricted to those keys).
C14_ExtractMatchesRender ==
    tr.pc = "extracted"
        => /\ tr.extracted = PlaceholderKeys(tr.template)
           /\ tr.rendered = render(tr.template,
                                   Restricted(tr.variables, tr.extracted))

\* the carrier name a channel is configured with, lower-cased as the
\* factory compares it
ConfiguredCarrier(channel) ==
    Lower(CASE channel = "email" -> settings.EMAIL_PROVIDER
            [] channel = "sms" -> settings.SMS_PROVIDER
            [] OTHER -> settings.WHATSAPP_PROVIDER)

\* the carriers with a registered adapter, per channel
Registered(channel) ==
    IF channel = "email" THEN {"aws_ses"} ELSE {"termii", "twilio"}

\* the credentials a carrier requires
RequiredSecrets(carrier) ==
    CASE carrier = "termii" -> {"TERMII_API_KEY"}
      [] carrier = "twilio" -> {"TWILIO_ACCOUNT_SID", "TWILIO_AUTH_TOKEN"}
      [] carrier = "aws_ses" -> {"AWS_ACCESS_KEY", "AWS_SECRET_KEY"}
      [] OTHER -> {}

\* the adapter class of a carrier on a channel
AdapterClass(channel, carrier) ==
    CASE channel = "email" -> "AWSEmailProvider"
      [] channel = "sms" /\ carrier = "termii" -> "TermiiSMSProvider"
      [] channel = "sms" -> "TwilioSMSProvider"
      [] carrier = "termii" -> "TermiiWhatsAppProvider"
      [] OTHER -> "TwilioWhatsAppProvider"

C16_AdapterCachedOnce ==
    /\ \A ch \in Channels :
         /\ svc.constructed[ch] <= 1
         /\ svc.cache[ch] # NoAdapter
              => svc.factory_calls[ch] = svc.cache[ch].serial
    /\ svc.last.channel # "none"
         => /\ svc.last.called = (svc.last.before = NoAdapter)
            /\ svc.last.before # NoAdapter
                 => svc.last.value = svc.last.before
            /\ (svc.last.called /\ svc.last.error # "None")
                 => svc.cache[svc.last.channel] = NoAdapter

\* C16 witness: the last access was answered from the cache, and on
\* another channel the factory has raised twice and nothing is cached.
C16_Witness ==
    /\ svc.last.channel # "none"
    /\ svc.last.before # NoAdapter
    /\ ~svc.last.called
    /\ \E ch \in Channels :
         svc.factory_calls[ch] = 2 /\ svc.cache[ch] = NoAdapter

\* C17: at most 50 carrier calls of a fan-out are in flight at once.
C17_InFlightCapped == fan.in_flight <= 50

\* C18: a send that names a template the store does not hold, or holds
\* inactive, makes no carrier call and writes no log row.
C18_UnknownTemplateFailsFirst ==
    (fan.pc # "idle" /\ fan.template # "active")
        => /\ fan.calls = 0
           /\ logs = << >>
           /\ fan.pc = "done" => fan.ret.kind = "raised"

\* C19: every step leaves each committed row of notification_logs in place
\* and unchanged; the table only grows at its end.
C19_LogAppendOnly ==
    [][/\ Len(logs') >= Len(logs)
       /\ \A i \in 1..Len(logs) : logs'[i] = logs[i]]_vars

\* C19 witness: after the earlier row a send has committed a second row,
\* and the statistics endpoint has read both.
C19_Witness ==
    /\ Len(logs) = 2
    /\ logs[1] = EarlierRow
    /\ query.endpoint = "get_notification_stats"
    /\ query.status_code = 200
    /\ query.count = 2

\* C20: no transaction of the request's session is open while a carrier
\* call of the request is in flight.
C20_NoTransactionAcrossCall ==
    \A r \in Requests : req[r].pc = "awaiting" => ~req[r].session.txn

\* the distinct addresses of a recipient list
DistinctRecipients(to) == {to[k] : k \in 1..Len(to)}

\* C21: the total_recipients of the row an invocation committed is the
\* number of distinct addresses of its request, also for a WhatsApp request
\* of more than 100 recipients.
C21_TotalIsDistinctCount ==
    \A r \in Requests :
        \A i \in RowsOf(r) :
            logs[i].total_recipients =
                Cardinality(DistinctRecipients(req[r].to))

\* C22: a request with no file, or with a file whose content type is not
\* one of the four allowed, is answered 400 or 422 and the AI provider is
\* called for none of its files.
C22_InvalidUploadRejected ==
    (cap.pc # "idle"
        /\ (cap.files = << >>
            \/ \E k \in 1..Len(cap.files) :
                   cap.files[k].content_type \notin
                       {"image/jpeg", "image/png", "image/webp",
                        "application/pdf"}))
        => /\ cap.pc = "done"
           /\ cap.status_code \in {400, 422}
           /\ cap.provider_calls = 0
           /\ cap.entries = << >>

\* C22 witness: a request of three files whose last one is text/plain, the
\* others being allowed, was answered 400 without a provider call.
C22_Witness ==
    /\ cap.pc = "done"
    /\ Len(cap.files) = 3
    /\ cap.files[1].content_type = "image/jpeg"
    /\ cap.files[2].content_type = "application/pdf"
    /\ cap.files[3].content_type = "text/plain"
    /\ cap.configured
    /\ cap.status_code = 400
    /\ cap.provider_calls = 0

RECURSIVE ExtractedEntries(_, _)
\* the objects the provider returned for the files 1..k, in upload order,
\* with the default of is_student in place of a null
ExtractedEntries(files, k) ==
    IF k = 0 THEN << >>
    ELSE IF files[k].extraction = "raised"
    THEN ExtractedEntries(files, k - 1)
    ELSE Append(ExtractedEntries(files, k - 1),
                [error |-> FALSE, file |-> k,
                 is_student |-> IF files[k].extraction = "null" THEN "false"
                                ELSE files[k].extraction])

\* C23: a request whose files all have allowed types, with the provider's
\* key set, is answered 200 with one entry per file whose extraction did
\* not raise, in upload order, each carrying what the provider extracted.
C23_OneEntryPerExtractedFile ==
    (cap.pc = "done"
        /\ cap.files # << >>
        /\ cap.configured
        /\ \A k \in 1..Len(cap.files) :
               cap.files[k].content_type \in valid_types)
        => /\ cap.status_code = 200
           /\ cap.entries = ExtractedEntries(cap.files, Len(cap.files))

\* C24: a committed row with successful_count = 0 has sent_at null, and a
\* row with successful_count > 0 has sent_at set.
C24_SentAtMeansDispatched ==
    \A row \in Rows :
        /\ row.successful_count = 0 => row.sent_at = "None"
        /\ row.successful_count > 0 => row.sent_at # "None"

\* C25: a committed row with failed_count > 0 has an error_message, on
\* every channel and also when other recipients of the batch succeeded.
C25_FailuresCarryError ==
    \A row \in Rows : row.failed_count > 0 => row.error_message # NoText

\* C26: while the carrier call of a task is in flight the thread is free,
\* so that every task that has not started can start, whichever adapter
\* makes the call.
C26_CallDoesNotBlock ==
    \A t \in Tasks :
        InFlight(t)
            => /\ loop.running = "none"
               /\ \A u \in Tasks :
                      loop.task[u].pc = "idle" => ENABLED AdapterCallStart(u)

\* C27: whatever the interleaving of create, update and delete requests,
\* no two template rows have the same name; no step removes or renames a
\* row, and a delete leaves its row in place with is_active false; a create
\* whose name a row carries, active or not, is answered 400 and adds
\* nothing.
C27_TemplateNamesStayTaken ==
    [][/\ \A i, j \in 1..Len(tpl'.rows) :
            tpl'.rows[i].name = tpl'.rows[j].name => i = j
       /\ Len(tpl'.rows) >= Len(tpl.rows)
       /\ \A i \in 1..Len(tpl.rows) : tpl'.rows[i].name = tpl.rows[i].name
       /\ \A q \in TemplateRequests :
            /\ delete_template_commit(q)
                 => /\ Len(tpl'.rows) = Len(tpl.rows)
                    /\ \E i \in 1..Len(tpl'.rows) :
                          /\ tpl'.rows[i].name = tpl.req[q].name
                          /\ ~tpl'.rows[i].is_active
            /\ (/\ create_template_select(q)
                /\ \E i \in 1..Len(tpl.rows) :
                      tpl.rows[i].name = tpl'.req[q].name)
                 => /\ tpl'.req[q].pc = "done"
                    /\ tpl'.req[q].status_code = 400
                    /\ tpl'.rows = tpl.rows]_vars

\* C27 witness: a create was answered 400 for the name of a soft-deleted
\* template, while the create of the other request lost the race for
\* another name to the unique index.
C27_Witness ==
    \E q1, q2 \in TemplateRequests :
        /\ tpl.req[q1].pc = "done" /\ tpl.req[q1].op = "create"
        /\ tpl.req[q1].status_code = 400
        /\ \E i \in 1..Len(tpl.rows) :
              tpl.rows[i].name = tpl.req[q1].name /\ ~tpl.rows[i].is_active
        /\ tpl.req[q2].pc = "done" /\ tpl.req[q2].op = "create"
        /\ tpl.req[q2].status_code = 500

\* C28: no send fails because a field of the row it writes is not a field
\* of NotificationLog: the construction of the row of the try block does
\* not raise, and neither does that of the row of the except block.
C28_RowConstructs ==
    \A r \in Requests :
        req[r].pc = "done"
            => /\ req[r].fault # "construct"
               /\ ~(/\ req[r].op \in {"sms", "whatsapp"}
                    /\ req[r].fault = "adapter"
                    /\ req[r].ret.kind = "raised"
                    /\ req[r].ret.exc = "TypeError")

\* C29: the adapter the factory returned for a send accepts the keywords of
\* the call the service makes on that channel.
C29_AdapterAcceptsServiceCall ==
    \A r \in Requests :
        (req[r].pc # "idle" /\ req[r].provider \notin {"None", "ValueError"})
            => CallAccepted(req[r].provider, req[r].op)

\* C30: get_db yields one session to a request; an OperationalError the
\* handler raised reaches the caller; and once the caller has its answer
\* every session get_db made for the request is closed.
C30_OneSessionPerRequest ==
    \A d \in DbRequests :
        /\ dep[d].yields <= 1
        /\ Len(dep[d].sessions) <= 1
        /\ dep[d].handler = "OperationalError"
             => dep[d].caller = "OperationalError"
        /\ dep[d].caller # "none"
             => \A i \in 1..Len(dep[d].sessions) :
                    dep[d].sessions[i] = "closed"

====
